---- MODULE Spec2Model ----
(***************************************************************************)
(* LeadGenerator: the lead store, the project tagger, the scoring function *)
(* and the search aggregation route, modelled from src/app/page.js,        *)
(* src/lib/storage.js, src/lib/websiteChecker.js and                       *)
(* src/app/api/search/route.js.                                            *)
(*                                                                         *)
(* Text is a sequence of one-character strings, so that trimming,          *)
(* cleaning and concatenation are computed as the code computes them.      *)
(* JavaScript null/undefined is NULL for text and NoNum for numbers.       *)
(* Timestamps (Date.now(), toISOString()) are readings of the clock `now`. *)
(* Ratings are kept in tenths (4.5 is 45), the precision of the directory. *)
(***************************************************************************)
EXTENDS Integers, Sequences, FiniteSets, TLC

\* ---------------------------------------------------------------- bounds
MaxTime == 1
MaxProjects == 2

\* ---------------------------------------------------------------- values
NULL == <<"<null>">>
NoNum == -1
NoTime == -1

\* JavaScript truthiness of a text value: null, undefined and '' are falsy.
Truthy(s) == s # NULL /\ s # << >>
\* JavaScript truthiness of a number: null, undefined and 0 are falsy.
TruthyNum(n) == n # NoNum /\ n # 0
\* a || b on text
OrElse(a, b) == IF Truthy(a) THEN a ELSE b
\* a || null on numbers
NumOrNull(n) == IF TruthyNum(n) THEN n ELSE NoNum

IsSpace(c) == c \in {" ", "\t", "\n"}

RECURSIVE TrimStart(_)
TrimStart(s) == IF s # << >> /\ IsSpace(Head(s)) THEN TrimStart(Tail(s)) ELSE s

RECURSIVE TrimEnd(_)
TrimEnd(s) ==
    IF s # << >> /\ IsSpace(s[Len(s)]) THEN TrimEnd(SubSeq(s, 1, Len(s) - 1)) ELSE s

\* a trim that forgets the trailing white space
trimStartOnly(s) == TrimStart(s)

\* String.prototype.trim
Trim(s) == TrimEnd(TrimStart(s))

Digit(d) == <<"0", "1", "2", "3", "4", "5", "6", "7", "8", "9">>[d + 1]

\* the decimal digits of a natural number, as `${n}` renders it
RECURSIVE Decimal(_)
Decimal(n) == IF n < 10 THEN <<Digit(n)>> ELSE Decimal(n \div 10) \o <<Digit(n % 10)>>

\* Array.prototype.findIndex, 1-based; 0 is JavaScript's -1
FindIndex(s, Test(_)) ==
    IF \E i \in 1..Len(s) : Test(s[i])
    THEN CHOOSE i \in 1..Len(s) : Test(s[i]) /\ \A j \in 1..(i - 1) : ~Test(s[j])
    ELSE 0

\* ------------------------------------------------- new Map(entries).values()
\* Map.prototype.set: a key already in the map keeps its position and takes
\* the new value; a new key is appended.
MapSet(m, k, v) ==
    IF \E i \in 1..Len(m) : m[i].k = k
    THEN [i \in 1..Len(m) |-> IF m[i].k = k THEN [k |-> k, v |-> v] ELSE m[i]]
    ELSE Append(m, [k |-> k, v |-> v])

RECURSIVE MapFromEntries(_, _)
MapFromEntries(m, entries) ==
    IF entries = << >> THEN m
    ELSE MapFromEntries(MapSet(m, Head(entries).k, Head(entries).v), Tail(entries))

MapValues(m) == [i \in 1..Len(m) |-> m[i].v]

\* ------------------------------------------------------------ characters
UpperChars == <<"A", "B", "C", "D", "E", "F", "G", "H", "I", "J", "K", "L", "M",
                "N", "O", "P", "Q", "R", "S", "T", "U", "V", "W", "X", "Y", "Z">>
LowerChars == <<"a", "b", "c", "d", "e", "f", "g", "h", "i", "j", "k", "l", "m",
                "n", "o", "p", "q", "r", "s", "t", "u", "v", "w", "x", "y", "z">>
DigitChars == {"0", "1", "2", "3", "4", "5", "6", "7", "8", "9"}

IsUpper(c) == \E i \in 1..26 : UpperChars[i] = c
IsLower(c) == \E i \in 1..26 : LowerChars[i] = c
ToLowerChar(c) == IF IsUpper(c) THEN LowerChars[CHOOSE i \in 1..26 : UpperChars[i] = c] ELSE c
ToUpperChar(c) == IF IsLower(c) THEN UpperChars[CHOOSE i \in 1..26 : LowerChars[i] = c] ELSE c

\* String.prototype.toLowerCase
ToLowerCase(s) == [i \in 1..Len(s) |-> ToLowerChar(s[i])]

IsAlnumLower(c) == IsLower(c) \/ c \in DigitChars
NotSpace(c) == ~IsSpace(c)
CleanKeeps(c) == IsAlnumLower(c) \/ IsSpace(c)

HasPrefix(s, p) == Len(s) >= Len(p) /\ SubSeq(s, 1, Len(p)) = p

Articles == << <<"t", "h", "e">>, <<"a">>, <<"a", "n">> >>

\* .replace(/^(the|a|an)\s+/i, ''): the first alternative that is a prefix and
\* is followed by at least one whitespace character is removed together with
\* the whitespace run after it.
StripArticle(s) ==
    LET l == ToLowerCase(s)
        Hit(a) == HasPrefix(l, a) /\ Len(s) > Len(a) /\ IsSpace(s[Len(a) + 1])
    IN IF \E i \in 1..Len(Articles) : Hit(Articles[i])
       THEN LET i == CHOOSE k \in 1..Len(Articles) :
                        Hit(Articles[k]) /\ \A j \in 1..(k - 1) : ~Hit(Articles[j])
            IN TrimStart(SubSeq(s, Len(Articles[i]) + 1, Len(s)))
       ELSE s

\* websiteChecker.js searchForWebsite: the cleaned business name
cleanName(businessName) ==
    StripArticle(SelectSeq(SelectSeq(ToLowerCase(businessName), CleanKeeps), NotSpace))

DotCom == <<".", "c", "o", "m">>
Www == <<"w", "w", "w", ".">>
Https == <<"h", "t", "t", "p", "s", ":", "/", "/">>

\* the candidates with the www form tried first
wwwFirst(clean) == << Www \o clean \o DotCom, clean \o DotCom >>

\* the candidate domains, in probing order
possibleDomains(clean) == << clean \o DotCom, Www \o clean \o DotCom >>

ProbeUrl(domain) == Https \o domain

\* a probe answers with an HTTP status; 0 stands for a thrown fetch
\* (timeout, abort, DNS or connection failure)
ProbeThrow == 0
ProbeOutcomes == {ProbeThrow, 200, 301, 404, 500}
ResponseOk(status) == status >= 200 /\ status <= 299
ProbeExists(status) == ResponseOk(status) \/ (status >= 300 /\ status < 400)

MinCleanLen == 3

\* searchForWebsite run to completion against the outcomes of its probes:
\* outcomes[i] is what the i-th candidate answers if it is probed.
\* Returns the result and the probes made, in order, each with its answer.
Probe(url, answer) == [url |-> url, answer |-> answer]
RECURSIVE ProbeLoop(_, _, _, _)
ProbeLoop(domains, outcomes, i, probed) ==
    IF i > Len(domains) THEN [hasWebsite |-> FALSE, website |-> NULL, probed |-> probed]
    ELSE LET url == ProbeUrl(domains[i])
         IN IF outcomes[i] # ProbeThrow /\ ProbeExists(outcomes[i])
            THEN [hasWebsite |-> TRUE, website |-> url,
                  probed |-> Append(probed, Probe(url, outcomes[i]))]
            ELSE ProbeLoop(domains, outcomes, i + 1,
                           Append(probed, Probe(url, outcomes[i])))

searchForWebsite(businessName, outcomes) ==
    LET clean == cleanName(businessName)
    IN IF Len(clean) < MinCleanLen
       THEN [hasWebsite |-> FALSE, website |-> NULL, probed |-> << >>]
       ELSE ProbeLoop(possibleDomains(clean), outcomes, 1, << >>)

\* websiteChecker.js checkBusinessWebsite
checkBusinessWebsite(businessName, existingWebsite, outcomes) ==
    IF Truthy(existingWebsite)
    THEN [hasWebsite |-> TRUE, website |-> existingWebsite, probed |-> << >>]
    ELSE searchForWebsite(businessName, outcomes)

\* ------------------------------------------- websiteChecker.js searchBusinesses
NoTypes == << NULL >>

GenericTypes == { <<"e", "s", "t", "a", "b", "l", "i", "s", "h", "m", "e", "n", "t">>, <<"p", "o", "i", "n", "t", "_", "o", "f", "_", "i", "n", "t", "e", "r", "e", "s", "t">>, <<"p", "l", "a", "c", "e">> }
NotGeneric(t) == t \notin GenericTypes

\* type.replace(/_/g, ' ').replace(/\b\w/g, l => l.toUpperCase())
FormatType(t) ==
    [i \in 1..Len(t) |->
        IF t[i] = "_" THEN " "
        ELSE IF i = 1 \/ t[i - 1] = "_" THEN ToUpperChar(t[i]) ELSE t[i]]

MaxTypes == 3

\* (place.types || []).filter(...).map(...).slice(0, 3)
businessTypes(types) ==
    LET given == IF types = NoTypes THEN << >> ELSE types
        kept == SelectSeq(given, NotGeneric)
        shown == [i \in 1..Len(kept) |-> FormatType(kept[i])]
    IN SubSeq(shown, 1, IF Len(shown) < MaxTypes THEN Len(shown) ELSE MaxTypes)

\* a record that takes the fields of the details answer whatever its status
placeTrustingDetails(place, details) ==
    [name |-> place.name,
     address |-> OrElse(place.formatted_address, << >>),
     phone |-> OrElse(details.formatted_phone_number, NULL),
     website |-> OrElse(details.website, NULL),
     rating |-> NumOrNull(place.rating),
     userRatingsTotal |-> NumOrNull(place.user_ratings_total),
     types |-> businessTypes(place.types),
     openingHoursStatus |-> NULL,
     googleMapsUrl |-> OrElse(details.url, NULL),
     placeId |-> place.place_id]

\* the record of one place when its details request answered (lines 214-245)
placeWithDetails(place, details) ==
    LET ok == details.status = "OK"
        website == IF ok THEN OrElse(details.website, NULL) ELSE NULL
        phone == IF ok THEN OrElse(details.formatted_phone_number, NULL) ELSE NULL
        url == IF ok THEN OrElse(details.url, NULL) ELSE NULL
        hours == IF ok /\ details.open_now = "true" THEN <<"O", "p", "e", "n", " ", "n", "o", "w">>
                 ELSE IF ok /\ details.open_now = "false" THEN <<"C", "l", "o", "s", "e", "d", " ", "n", "o", "w">>
                 ELSE NULL
    IN [name |-> place.name,
        address |-> OrElse(place.formatted_address, << >>),
        phone |-> phone,
        website |-> website,
        rating |-> NumOrNull(place.rating),
        userRatingsTotal |-> NumOrNull(place.user_ratings_total),
        types |-> businessTypes(place.types),
        openingHoursStatus |-> hours,
        googleMapsUrl |-> url,
        placeId |-> place.place_id]

\* the record of one place when its details request threw (lines 246-267)
placeWithoutDetails(place) ==
    [name |-> place.name,
     address |-> OrElse(place.formatted_address, << >>),
     phone |-> NULL,
     website |-> NULL,
     rating |-> NumOrNull(place.rating),
     userRatingsTotal |-> NumOrNull(place.user_ratings_total),
     types |-> businessTypes(place.types),
     openingHoursStatus |-> NULL,
     googleMapsUrl |-> NULL,
     placeId |-> place.place_id]

placeRecord(place, details) ==
    IF details.fetch = "throw" THEN placeWithoutDetails(place)
    ELSE placeWithDetails(place, details)

\* new Map(allPlaces.map(place => [place.place_id, place])).values()
uniquePlaces(allPlaces) ==
    MapValues(MapFromEntries(<< >>,
        [i \in 1..Len(allPlaces) |-> [k |-> allPlaces[i].place_id, v |-> allPlaces[i]]]))

\* query.charAt(0).toUpperCase() + query.slice(1)
Capitalize(q) == IF q = << >> THEN q ELSE <<ToUpperChar(Head(q))>> \o Tail(q)

MockStreets == << <<"1", "2", "3", " ", "M", "a", "i", "n", " ", "S", "t", "r", "e", "e", "t", ",", " ">>, <<"4", "5", "6", " ", "O", "a", "k", " ", "A", "v", "e", "n", "u", "e", ",", " ">>, <<"7", "8", "9", " ", "P", "i", "n", "e", " ", "R", "o", "a", "d", ",", " ">>,
                  <<"3", "2", "1", " ", "E", "l", "m", " ", "S", "t", "r", "e", "e", "t", ",", " ">>, <<"6", "5", "4", " ", "M", "a", "p", "l", "e", " ", "D", "r", "i", "v", "e", ",", " ">> >>

\* the synthetic sample returned when no API key is configured (lines 305-333);
\* a mock record has only name, address and phone
mockBusinesses(query, location, phones) ==
    [i \in 1..Len(MockStreets) |->
        [name |-> Capitalize(query) \o <<" ", "S", "h", "o", "p", " ">> \o Decimal(i),
         address |-> MockStreets[i] \o location,
         phone |-> phones[i],
         website |-> NULL,
         rating |-> NoNum,
         userRatingsTotal |-> NoNum,
         types |-> NoTypes,
         openingHoursStatus |-> NULL,
         googleMapsUrl |-> NULL,
         placeId |-> NULL]]

\* ------------------------------------------------ app/api/search/route.js POST
\* !query || !location
requestRejected(query, location) == ~Truthy(query) \/ ~Truthy(location)

WithWebsiteStatus(business, hasWebsite, website) ==
    [name |-> business.name,
     address |-> business.address,
     phone |-> business.phone,
     website |-> website,
     hasWebsite |-> hasWebsite,
     rating |-> business.rating,
     userRatingsTotal |-> business.userRatingsTotal,
     types |-> business.types,
     openingHoursStatus |-> business.openingHoursStatus,
     googleMapsUrl |-> business.googleMapsUrl,
     placeId |-> business.placeId]

\* a check that hands every business to checkBusinessWebsite and returns
\* only the verdict, leaving the website field as the source gave it
verdictOnly(business, outcomes) ==
    LET websiteCheck == checkBusinessWebsite(business.name,
                                             OrElse(business.website, NULL), outcomes)
    IN [record |-> WithWebsiteStatus(business, websiteCheck.hasWebsite, business.website),
        probed |-> websiteCheck.probed,
        called |-> TRUE]

\* a check that probes the domains of every business, then prefers the
\* website the source gave
probeEvery(business, outcomes) ==
    LET websiteCheck == searchForWebsite(business.name, outcomes)
    IN [record |-> WithWebsiteStatus(business,
                       Truthy(business.website) \/ websiteCheck.hasWebsite,
                       OrElse(business.website, OrElse(websiteCheck.website, NULL))),
        probed |-> websiteCheck.probed,
        called |-> TRUE]

\* the website check of one business (lines 22-52): the record with its
\* website status, the probes made, and whether checkBusinessWebsite was called
businessWithWebsiteStatus(business, outcomes) ==
    IF Truthy(business.website)
    THEN [record |-> WithWebsiteStatus(business, TRUE, business.website),
          probed |-> << >>,
          called |-> FALSE]
    ELSE LET websiteCheck == checkBusinessWebsite(business.name, NULL, outcomes)
         IN [record |-> WithWebsiteStatus(business, websiteCheck.hasWebsite,
                                          OrElse(websiteCheck.website, NULL)),
             probed |-> websiteCheck.probed,
             called |-> TRUE]

\* ({ hasWebsite, website, ...rest }) => ({ ...rest, hasWebsite, website: website || null })
allBusinessesRecord(b) == [b EXCEPT !.website = OrElse(b.website, NULL)]

\* ------------------------------------------- storage.js calculateLeadScore
\* Scores are computed in tenths of a point and rounded as Math.round does.
MathRound10(x10) == (x10 + 5) \div 10

Min(a, b) == IF a < b THEN a ELSE b

\* a score whose review points are not capped
scoreWithoutCap(lead) ==
    LET s1 == IF TruthyNum(lead.rating) THEN lead.rating * 10 ELSE 0
        s2 == IF TruthyNum(lead.userRatingsTotal) THEN s1 + lead.userRatingsTotal ELSE s1
        s3 == IF ~lead.hasWebsite THEN s2 + 300 ELSE s2
        s4 == IF Truthy(lead.phone) THEN s3 + 100 ELSE s3
        s5 == IF Truthy(lead.address) THEN s4 + 50 ELSE s4
    IN MathRound10(s5)

calculateLeadScore(lead) ==
    LET s0 == 0
        s1 == IF TruthyNum(lead.rating) THEN s0 + lead.rating * 10 ELSE s0
        s2 == IF TruthyNum(lead.userRatingsTotal)
              THEN s1 + Min(lead.userRatingsTotal, 200) ELSE s1
        s3 == IF ~lead.hasWebsite THEN s2 + 300 ELSE s2
        s4 == IF Truthy(lead.phone) THEN s3 + 100 ELSE s3
        s5 == IF Truthy(lead.address) THEN s4 + 50 ELSE s4
    IN MathRound10(s5)

\* ---------------------------------------------------------------- state
VARIABLES
    now,                 \* the clock read by Date.now() and new Date()
    query, location,     \* page.js: the search form
    loading, error,      \* page.js: search progress and message
    inflight,            \* /api/search requests sent and not yet answered
    results,             \* page.js: the businesses of the last search
    selectedBusinesses,  \* page.js: Set of indices into results, in insertion order
    savedBusinesses,     \* page.js: the leads in memory
    projects,            \* page.js: the projects in memory
    selectedProject,     \* page.js: the selected project object, or NoProject
    lsLeads,             \* localStorage leadGenerator_leads
    lsProjects,          \* localStorage leadGenerator_projects
    lastOp,              \* history: the last handler that wrote a store, and
                         \* how many of its items it touched
    srvPc,               \* route.js POST: where the handler is
    srvReq,              \* route.js POST: the request body
    srvBusinesses,       \* route.js POST: what searchBusinesses returned
    srvChecked,          \* route.js POST: the Promise.all slots of the website checks
    srvProbes,           \* the HEAD requests made, per business
    srvCalls,            \* the checkBusinessWebsite calls made, per business
    srvFetch,            \* fetchAllPlaces: its locals, the page requests it made
                         \* and what the directory answered
    srvResponse,         \* route.js POST: the response sent
    scoreLead,           \* the record handed to calculateLeadScore
    scoreOut,            \* what calculateLeadScore returned
    leadFilter,          \* page.js: the status filter of the leads view
    leadSearch,          \* page.js: the text typed in the leads search box
    lsNotes,             \* localStorage leadGenerator_notes: lead id -> notes
    issued               \* history: the search request sent last

searchVars == <<query, location, loading, error, inflight, results, selectedBusinesses>>
leadVars == <<savedBusinesses, lsLeads>>
projectVars == <<projects, selectedProject, lsProjects>>
pageVars == <<now, searchVars, leadVars, projectVars, lastOp>>
srvVars == <<srvPc, srvReq, srvBusinesses, srvChecked, srvProbes, srvCalls,
            srvFetch, srvResponse>>
scoreVars == <<scoreLead, scoreOut>>
\* the requests that can be outstanding at once
MaxInflight == 2
NoRequest == [query |-> NULL, location |-> NULL, by |-> "none"]
\* a request sent to /api/search and the handler that awaits its answer
SearchRequest(q, l, by) == [query |-> q, location |-> l, by |-> by]
viewVars == <<leadFilter, leadSearch, lsNotes, issued>>
vars == <<pageVars, srvVars, scoreVars, viewVars>>

NoProject == [id |-> NULL, name |-> NULL, query |-> NULL, location |-> NULL,
              createdAt |-> NoTime, leadIds |-> << >>]
NoResponse == [status |-> 0, businesses |-> << >>, error |-> << >>]
NoLead == [rating |-> NoNum, userRatingsTotal |-> NoNum, hasWebsite |-> FALSE,
           phone |-> NULL, address |-> << >>]

Statuses == {"new", "contacted", "replied", "won", "lost"}
ContactStatuses == {"contacted", "replied"}

\* ------------------------------------------------------ storage.js (leads)
\* JSON.stringify followed by JSON.parse returns an equal collection for the
\* values kept here (text, numbers, booleans, null and arrays of them).
saveLeads(leads) == leads
saveProjects(ps) == ps

\* two localStorage.setItem calls on one key: the later value is what is stored
\* a store that keeps the first of two writes of one handler
keepFirstWrite(first, second) == first

Overwrite(first, second) == second

\* storage.js updateLeadStatus, on the persisted collection
updateLeadStatus(leads, leadId, status, t) ==
    LET HasId(l) == l.id = leadId
        leadIndex == FindIndex(leads, HasId)
    IN IF leadIndex # 0
       THEN saveLeads([leads EXCEPT
                ![leadIndex].status = status,
                ![leadIndex].lastUpdated = t,
                ![leadIndex].lastContactDate =
                    IF status \in ContactStatuses THEN t ELSE @])
       ELSE leads

\* ------------------------------------------------------- page.js (leads)
\* item.placeId || `${item.name}_${item.address}`
LeadKey(item) == OrElse(item.placeId, item.name \o <<"_">> \o item.address)

\* business.placeId || `${business.name}_${business.address}_${Date.now()}`
LeadId(business, t) ==
    OrElse(business.placeId,
           business.name \o <<"_">> \o business.address \o <<"_">> \o Decimal(t))

\* the lead built from a selected business (lines 598-606)
NewLead(business, t, project) ==
    [name |-> business.name,
     address |-> business.address,
     phone |-> business.phone,
     website |-> business.website,
     hasWebsite |-> business.hasWebsite,
     rating |-> business.rating,
     userRatingsTotal |-> business.userRatingsTotal,
     types |-> business.types,
     openingHoursStatus |-> business.openingHoursStatus,
     googleMapsUrl |-> business.googleMapsUrl,
     placeId |-> business.placeId,
     id |-> LeadId(business, t),
     status |-> "new",
     score |-> calculateLeadScore(business),
     addedDate |-> t,
     lastUpdated |-> t,
     lastContactDate |-> NoTime,
     projectId |-> OrElse(project.id, NULL)]

\* the selected indices that name a business without a website (lines 592-608);
\* indices are 0-based as in the code
Addable(idx) == idx + 1 <= Len(results) /\ ~results[idx + 1].hasWebsite

\* an add that stores every business of the page
addWholePage(selected, t, project) ==
    [i \in 1..Len(results) |-> NewLead(results[i], t, project)]

businessesToAdd(selected, t, project) ==
    LET picked == SelectSeq(selected, Addable)
    IN [i \in 1..Len(picked) |-> NewLead(results[picked[i] + 1], t, project)]

\* the merge without the Map: every lead of newSaved is kept
keepAll(newSaved) == newSaved

\* Array.from(new Map(newSaved.map(item => [key, item])).values())
uniqueSaved(newSaved) ==
    MapValues(MapFromEntries(<< >>,
        [i \in 1..Len(newSaved) |-> [k |-> LeadKey(newSaved[i]), v |-> newSaved[i]]]))

Keys(leads) == {LeadKey(leads[i]) : i \in 1..Len(leads)}
Ids(leads) == {leads[i].id : i \in 1..Len(leads)}
SeqToSet(s) == {s[i] : i \in 1..Len(s)}

WithoutWebsite(b) == ~b.hasWebsite

toggleBusinessSelection(index) ==
    /\ index + 1 <= Len(results)
    /\ ~results[index + 1].hasWebsite
    /\ selectedBusinesses' =
          IF index \in SeqToSet(selectedBusinesses)
          THEN SelectSeq(selectedBusinesses, LAMBDA i : i # index)
          ELSE Append(selectedBusinesses, index)
    /\ UNCHANGED lastOp
    /\ UNCHANGED <<now, query, location, loading, error, inflight, results,
                   leadVars, projectVars, srvVars, scoreVars, viewVars>>


\* the results section is rendered when !loading && results.length > 0, and the
\* selection buttons when some result has no website (lines 1296, 1367)
SelectionShown ==
    /\ ~loading
    /\ \E i \in 1..Len(results) : ~results[i].hasWebsite

RECURSIVE Dedup(_, _)
Dedup(acc, s) ==
    IF s = << >> THEN acc
    ELSE Dedup(IF Head(s) \in SeqToSet(acc) THEN acc ELSE Append(acc, Head(s)), Tail(s))

\* page.js selectAllBusinesses: 0-based indices of the results without website
allIndices ==
    LET without == SelectSeq(results, WithoutWebsite)
        IndexOf(b) == FindIndex(results,
                          LAMBDA r : r.placeId = b.placeId /\ r.name = b.name) - 1
        found == [i \in 1..Len(without) |-> IndexOf(without[i])]
    IN Dedup(<< >>, SelectSeq(found, LAMBDA idx : idx # -1))

selectAllBusinesses ==
    /\ SelectionShown
    /\ selectedBusinesses' = allIndices
    /\ UNCHANGED lastOp
    /\ UNCHANGED <<now, query, location, loading, error, inflight, results,
                   leadVars, projectVars, srvVars, scoreVars, viewVars>>

deselectAll ==
    /\ SelectionShown
    /\ selectedBusinesses # << >>
    /\ selectedBusinesses' = << >>
    /\ UNCHANGED lastOp
    /\ UNCHANGED <<now, query, location, loading, error, inflight, results,
                   leadVars, projectVars, srvVars, scoreVars, viewVars>>

\* page.js addSelectedToSaved; lastOp.n counts the stored leads whose key is
\* among the keys of the leads being added
addSelectedToSaved ==
    /\ SelectionShown
    /\ selectedBusinesses # << >>
    /\ LET toAdd == businessesToAdd(selectedBusinesses, now, selectedProject)
           newSaved == savedBusinesses \o toAdd
           unique == uniqueSaved(newSaved)
       IN /\ savedBusinesses' = unique
          /\ lsLeads' = saveLeads(unique)
          /\ lastOp' = [op |-> "add",
                        n |-> Cardinality(Keys(savedBusinesses) \cap Keys(toAdd))]
    /\ selectedBusinesses' = << >>
    /\ UNCHANGED <<now, query, location, loading, error, inflight, results,
                   projectVars, srvVars, scoreVars, viewVars>>

\* page.js handleStatusChange: the <select> fires onChange for another value
\* than the one shown
handleStatusChange(leadId, newStatus) ==
    /\ \E i \in 1..Len(savedBusinesses) :
          savedBusinesses[i].id = leadId /\ savedBusinesses[i].status # newStatus
    /\ LET stored == updateLeadStatus(lsLeads, leadId, newStatus, now)
           updated == [i \in 1..Len(savedBusinesses) |->
                          IF savedBusinesses[i].id = leadId
                          THEN [savedBusinesses[i] EXCEPT
                                   !.status = newStatus, !.lastUpdated = now]
                          ELSE savedBusinesses[i]]
       IN /\ savedBusinesses' = updated
          /\ lsLeads' = Overwrite(stored, saveLeads(updated))
    /\ lastOp' = [op |-> "status", n |-> 1]
    /\ UNCHANGED <<now, searchVars, projectVars, srvVars, scoreVars, viewVars>>

\* page.js removeFromSaved
removeFromSaved(leadId) ==
    /\ \E i \in 1..Len(savedBusinesses) : savedBusinesses[i].id = leadId
    /\ LET updated == SelectSeq(savedBusinesses, LAMBDA lead : lead.id # leadId)
       IN /\ savedBusinesses' = updated
          /\ lsLeads' = saveLeads(updated)
          /\ lastOp' = [op |-> "remove", n |-> Len(savedBusinesses) - Len(updated)]
    /\ UNCHANGED <<now, searchVars, projectVars, srvVars, scoreVars, viewVars>>


\* ----------------------------------------------------- page.js (projects)
ProjectPrefix == <<"p", "r", "o", "j", "e", "c", "t", "_">>

FindProject(projectId) == FindIndex(projects, LAMBDA p : p.id = projectId)

\* page.js createProject; newProjectName is the text of the project form
createProject(newProjectName) ==
    /\ Len(projects) < MaxProjects
    /\ IF ~Truthy(Trim(newProjectName))
       THEN /\ lastOp' = [op |-> "createProject", n |-> 0]
            /\ UNCHANGED projectVars
       ELSE LET newProject == [id |-> ProjectPrefix \o Decimal(now),
                               name |-> Trim(newProjectName),
                               query |-> query,
                               location |-> location,
                               createdAt |-> now,
                               leadIds |-> << >>]
                updated == Append(projects, newProject)
            IN /\ projects' = updated
               /\ lsProjects' = saveProjects(updated)
               /\ selectedProject' = newProject
               /\ lastOp' = [op |-> "createProject", n |-> 1]
    /\ UNCHANGED <<now, searchVars, leadVars, srvVars, scoreVars, viewVars>>

\* the project <select> of the search tab (lines 1232-1237); '' is "No Project"
chooseProject(projectId) ==
    /\ projects # << >>
    /\ projectId \in {<< >>} \cup {projects[i].id : i \in 1..Len(projects)}
    /\ selectedProject' =
          IF FindProject(projectId) # 0 THEN projects[FindProject(projectId)]
          ELSE NoProject
    /\ UNCHANGED lastOp
    /\ UNCHANGED <<now, searchVars, leadVars, projects, lsProjects,
                   srvVars, scoreVars, viewVars>>

\* a click on a project card (line 952)
clickProject(i) ==
    /\ i \in 1..Len(projects)
    /\ selectedProject' = projects[i]
    /\ UNCHANGED lastOp
    /\ UNCHANGED <<now, searchVars, leadVars, projects, lsProjects,
                   srvVars, scoreVars, viewVars>>

\* page.js handleRenameProject; editingProjectName is the text of the edit form
handleRenameProject(projectId, editingProjectName) ==
    /\ FindProject(projectId) # 0
    /\ LET project == projects[FindProject(projectId)]
           trimmed == Trim(editingProjectName)
       IN IF ~Truthy(trimmed) \/ trimmed = project.name
          THEN /\ lastOp' = [op |-> "renameProject", n |-> 0]
               /\ UNCHANGED projectVars
          ELSE LET updated == [i \in 1..Len(projects) |->
                                  IF projects[i].id = projectId
                                  THEN [projects[i] EXCEPT !.name = trimmed]
                                  ELSE projects[i]]
               IN /\ projects' = updated
                  /\ lsProjects' = saveProjects(updated)
                  /\ selectedProject' =
                        IF selectedProject.id = projectId
                        THEN [project EXCEPT !.name = trimmed]
                        ELSE selectedProject
                  /\ lastOp' = [op |-> "renameProject", n |-> 1]
    /\ UNCHANGED <<now, searchVars, leadVars, srvVars, scoreVars, viewVars>>

\* a delete that leaves the leads of the project as they are
leaveLeads(leads, projectId) == leads

\* a delete that owns its leads: the tagged leads go with the project
dropLeads(leads, projectId) ==
    SelectSeq(leads, LAMBDA lead : lead.projectId # projectId)

\* savedBusinesses.map(lead => lead.projectId === projectId ? {...lead, projectId: null} : lead)
detachLeads(leads, projectId) ==
    [i \in 1..Len(leads) |->
        IF leads[i].projectId = projectId
        THEN [leads[i] EXCEPT !.projectId = NULL]
        ELSE leads[i]]

\* page.js handleDeleteProject; lastOp.n counts the leads detached
handleDeleteProject(projectId) ==
    /\ FindProject(projectId) # 0
    /\ LET updatedProjects == SelectSeq(projects, LAMBDA p : p.id # projectId)
           updatedLeads == detachLeads(savedBusinesses, projectId)
       IN /\ projects' = updatedProjects
          /\ lsProjects' = saveProjects(updatedProjects)
          /\ savedBusinesses' = updatedLeads
          /\ lsLeads' = saveLeads(updatedLeads)
          /\ lastOp' = [op |-> "deleteProject",
                        n |-> Cardinality({i \in 1..Len(savedBusinesses) :
                                  savedBusinesses[i].projectId = projectId})]
    /\ selectedProject' =
          IF selectedProject.id = projectId THEN NoProject ELSE selectedProject
    /\ UNCHANGED <<now, searchVars, srvVars, scoreVars, viewVars>>


\* ------------------------------------------------- what the directory holds
\* Places as the text search returns them, and details answers.
PlaceDeli == [place_id |-> <<"p", "1">>, name |-> <<"T", "h", "e", " ", "D", "e", "l", "i">>, formatted_address |-> <<"1", " ", "E", "l", "m">>,
              rating |-> 45, user_ratings_total |-> 120,
              types |-> << <<"m", "e", "a", "l", "_", "t", "a", "k", "e", "a", "w", "a", "y">>, <<"e", "s", "t", "a", "b", "l", "i", "s", "h", "m", "e", "n", "t">> >>]
PlaceAl == [place_id |-> <<"p", "2">>, name |-> <<"A", "l">>, formatted_address |-> NULL,
            rating |-> NoNum, user_ratings_total |-> 0,
            types |-> << <<"p", "l", "a", "c", "e">>, <<"b", "a", "r">>, <<"c", "a", "f", "e">>, <<"f", "o", "o", "d">>, <<"s", "t", "o", "r", "e">> >>]
PlaceInn == [place_id |-> <<"p", "3">>, name |-> <<"I", "n", "n", " ", "&", " ", "C", "o">>, formatted_address |-> <<"3", " ", "O", "a", "k">>,
             rating |-> 38, user_ratings_total |-> 7,
             types |-> NoTypes]
\* the same place as PlaceDeli, listed again with a newer rating
PlaceDeliAgain == [PlaceDeli EXCEPT !.rating = 44, !.user_ratings_total = 121]

DetailsSite == [fetch |-> "ok", status |-> "OK", website |-> <<"h", "t", "t", "p", ":", "/", "/", "i", "n", "n", ".", "e", "x", "a", "m", "p", "l", "e">>,
                formatted_phone_number |-> <<"5", "5", "5", "-", "0", "1", "0", "3">>, open_now |-> "true",
                url |-> <<"m", "a", "p", "s", "/", "p", "3">>]
DetailsPhone == [fetch |-> "ok", status |-> "OK", website |-> NULL,
                 formatted_phone_number |-> <<"5", "5", "5", "-", "0", "1", "0", "1">>, open_now |-> "false",
                 url |-> <<"m", "a", "p", "s", "/", "p", "1">>]
DetailsBare == [fetch |-> "ok", status |-> "OK", website |-> << >>,
                formatted_phone_number |-> NULL, open_now |-> "undefined",
                url |-> NULL]
DetailsDenied == [fetch |-> "ok", status |-> "REQUEST_DENIED", website |-> <<"h", "t", "t", "p", ":", "/", "/", "i", "n", "n", ".", "e", "x", "a", "m", "p", "l", "e">>,
                  formatted_phone_number |-> <<"5", "5", "5", "-", "0", "1", "0", "3">>, open_now |-> "true",
                  url |-> <<"m", "a", "p", "s", "/", "p", "3">>]
DetailsThrow == [fetch |-> "throw", status |-> "OK", website |-> NULL,
                 formatted_phone_number |-> NULL, open_now |-> "undefined",
                 url |-> NULL]

AllFail == <<ProbeThrow, 404>>
FirstAnswers == <<200, ProbeThrow>>

Checked(business, outcomes) ==
    allBusinessesRecord(businessWithWebsiteStatus(business, outcomes).record)

\* a response of the route with the API key set: two places, none found by
\* the domain probe
GoogleBusinesses ==
    << Checked(placeRecord(PlaceDeli, DetailsPhone), AllFail),
       Checked(placeRecord(PlaceInn, DetailsSite), AllFail) >>

MockPhones == << <<"(", "5", "5", "5", ")", " ", "1", "0", "0", "0", "-", "1", "0", "0", "0">>, <<"(", "5", "5", "5", ")", " ", "2", "0", "0", "0", "-", "2", "0", "0", "0">>, <<"(", "5", "5", "5", ")", " ", "3", "0", "0", "0", "-", "3", "0", "0", "0">>,
                 <<"(", "5", "5", "5", ")", " ", "4", "0", "0", "0", "-", "4", "0", "0", "0">>, <<"(", "5", "5", "5", ")", " ", "9", "9", "9", "9", "-", "9", "9", "9", "9">> >>

\* a response of the route without API key: the mock sample for (q, l), the
\* probe finding a domain for every shop but the first
MockBusinesses(q, l) ==
    LET mock == mockBusinesses(q, l, MockPhones)
    IN [i \in 1..Len(mock) |->
           Checked(mock[i], IF i = 1 THEN AllFail ELSE FirstAnswers)]

MsgRequired == "Query and location are required"
MsgGoogle == "Google Places API error: REQUEST_DENIED"
MsgFailed == "Failed to search for businesses"
MsgLocation == "Please enter a location"

Success(businesses) == [status |-> 200, businesses |-> businesses, error |-> ""]
Failure(status, message) == [status |-> status, businesses |-> << >>, error |-> message]

\* the mock sample of the search form as the specifications below fill it
TypedQuery == <<"q">>
TypedLocation == <<"L">>
TypedMock == MockBusinesses(TypedQuery, TypedLocation)
MockFor(req) ==
    IF req.query = TypedQuery /\ req.location = TypedLocation THEN TypedMock
    ELSE MockBusinesses(req.query, req.location)

\* the answers /api/search can give to a request, as the page sees them: with
\* the API key set (first line) and without it (the mock sample)
ServerResponses(req) ==
    IF requestRejected(req.query, req.location)
    THEN { Failure(400, MsgRequired) }
    ELSE { Success(GoogleBusinesses), Success(<< >>),
           Failure(400, MsgGoogle), Failure(500, MsgFailed),
           Success(MockFor(req)) }

\* ------------------------------------------------------ page.js (search)
setQuery(text) ==
    /\ ~loading
    /\ query # text
    /\ query' = text
    /\ UNCHANGED lastOp
    /\ UNCHANGED <<now, location, loading, error, inflight, results,
                   selectedBusinesses, leadVars, projectVars, srvVars, scoreVars, viewVars>>

setLocation(text) ==
    /\ ~loading
    /\ location # text
    /\ location' = text
    /\ UNCHANGED lastOp
    /\ UNCHANGED <<now, query, loading, error, inflight, results,
                   selectedBusinesses, leadVars, projectVars, srvVars, scoreVars, viewVars>>

\* page.js handleSubmit up to the fetch (lines 526-545); the submit button is
\* disabled while loading
handleSubmit ==
    /\ ~loading
    /\ Len(inflight) < MaxInflight
    /\ IF ~Truthy(Trim(location))
       THEN /\ error' = MsgLocation
            /\ UNCHANGED <<loading, results, inflight, issued>>
       ELSE /\ loading' = TRUE
            /\ error' = ""
            /\ results' = << >>
            /\ inflight' = Append(inflight, SearchRequest(query, location, "submit"))
            /\ issued' = SearchRequest(query, location, "submit")
    /\ UNCHANGED lastOp
    /\ UNCHANGED <<now, query, location, selectedBusinesses,
                   leadVars, projectVars, srvVars, scoreVars,
                   leadFilter, leadSearch, lsNotes>>

RemoveAt(s, i) == SubSeq(s, 1, i - 1) \o SubSeq(s, i + 1, Len(s))

\* page.js handleSubmit from the response on (lines 547-563); the response is
\* one of ServerResponses(inflight[i])
handleSubmitResponse(i, response) ==
    /\ i \in 1..Len(inflight)
    /\ inflight[i].by = "submit"
    /\ inflight' = RemoveAt(inflight, i)
    /\ IF ~ResponseOk(response.status)
       THEN /\ error' = (IF response.error # "" THEN response.error ELSE MsgFailed)
            /\ UNCHANGED <<results, selectedBusinesses, query>>
       ELSE /\ results' = response.businesses
            /\ selectedBusinesses' = << >>
            /\ query' = (IF ~Truthy(Trim(inflight[i].query)) THEN << >> ELSE query)
            /\ UNCHANGED error
    /\ loading' = FALSE
    /\ UNCHANGED lastOp
    /\ UNCHANGED <<now, location, leadVars, projectVars, srvVars, scoreVars, viewVars>>

\* page.js handleSearchAgain up to the fetch (lines 666-685), the 100 ms wait
\* taken to elapse before anything else happens; the button is shown on the
\* card of a project that has a query or a location (lines 1003-1014)
handleSearchAgain(i) ==
    /\ i \in 1..Len(projects)
    /\ Len(inflight) < MaxInflight
    /\ Truthy(projects[i].query) \/ Truthy(projects[i].location)
    /\ query' = OrElse(projects[i].query, << >>)
    /\ location' = OrElse(projects[i].location, << >>)
    /\ selectedProject' = projects[i]
    /\ IF ~Truthy(projects[i].location)
       THEN UNCHANGED <<loading, error, results, inflight, issued>>
       ELSE LET request == SearchRequest(OrElse(projects[i].query, << >>),
                                         projects[i].location, "again")
            IN /\ loading' = TRUE
               /\ error' = ""
               /\ results' = << >>
               /\ inflight' = Append(inflight, request)
               /\ issued' = request
    /\ UNCHANGED lastOp
    /\ UNCHANGED <<now, selectedBusinesses, leadVars, projects, lsProjects,
                   srvVars, scoreVars, leadFilter, leadSearch, lsNotes>>

\* page.js handleSearchAgain from the response on (lines 687-702)
handleSearchAgainResponse(i, response) ==
    /\ i \in 1..Len(inflight)
    /\ inflight[i].by = "again"
    /\ inflight' = RemoveAt(inflight, i)
    /\ IF ~ResponseOk(response.status)
       THEN /\ error' = (IF response.error # "" THEN response.error ELSE MsgFailed)
            /\ UNCHANGED <<results, selectedBusinesses>>
       ELSE /\ results' = response.businesses
            /\ selectedBusinesses' = << >>
            /\ UNCHANGED error
    /\ loading' = FALSE
    /\ UNCHANGED lastOp
    /\ UNCHANGED <<now, query, location, leadVars, projectVars, srvVars, scoreVars,
                   viewVars>>

\* time passes
Tick ==
    /\ now < MaxTime
    /\ now' = now + 1
    /\ UNCHANGED <<searchVars, leadVars, projectVars, lastOp, srvVars, scoreVars, viewVars>>

\* the page is loaded again: the mount effect reads the stores (lines 519-524)
\* and every other piece of page state starts over; pending fetches are dropped
Reload ==
    /\ savedBusinesses' = lsLeads
    /\ projects' = lsProjects
    /\ query' = << >>
    /\ location' = << >>
    /\ loading' = FALSE
    /\ error' = ""
    /\ inflight' = << >>
    /\ results' = << >>
    /\ selectedBusinesses' = << >>
    /\ selectedProject' = NoProject
    /\ lastOp' = [op |-> "reload", n |-> 0]
    /\ leadFilter' = "all"
    /\ leadSearch' = << >>
    /\ issued' = NoRequest
    /\ UNCHANGED <<now, lsLeads, lsProjects, lsNotes, srvVars, scoreVars>>


\* ------------------------------------------ app/api/search/route.js (handler)
Pending == [pending |-> TRUE]

PlaceLists == { << >>, <<PlaceAl>>, <<PlaceDeli, PlaceInn>>,
                <<PlaceDeli, PlaceInn, PlaceDeliAgain>> }
DetailsAnswers == {DetailsSite, DetailsPhone, DetailsBare, DetailsDenied, DetailsThrow}
Requests == { [query |-> q, location |-> l] :
                 q \in {<< >>, TypedQuery}, l \in {<< >>, TypedLocation} }
\* what the two candidate domains of one business answer when probed
OutcomeLists == { AllFail, FirstAnswers, <<404, 301>>, <<500, ProbeThrow>> }

\* searchBusinesses with the API key set (lines 172-272): the places of the
\* text search, made unique, each with the answer of its details request
placesWithDetails(allPlaces, details) ==
    LET unique == uniquePlaces(allPlaces)
    IN [i \in 1..Len(unique) |-> placeRecord(unique[i], details[i])]

\* ------------------------------------------ websiteChecker.js fetchAllPlaces
NoFetch == [searchQuery |-> << >>, maxPages |-> 0, pageCount |-> 0,
            nextPageToken |-> NULL, allResults |-> << >>,
            requests |-> << >>, answers |-> << >>, details |-> << >>,
            clock |-> 0, requestedAt |-> << >>, answeredAt |-> << >>,
            settled |-> << >>]

\* the time in ms a page request takes to be answered
FetchMs == 300
CooldownMs == 2000

\* a loop that asks for the next page at once
noCooldown(token) == 0

\* if (nextPageToken) await new Promise(resolve => setTimeout(resolve, 2000))
cooldownFor(token) == IF Truthy(token) THEN CooldownMs ELSE 0

InWord == <<" ", "i", "n", " ">>
BusinessesWord == <<"b", "u", "s", "i", "n", "e", "s", "s", "e", "s">>

\* query && query.trim()
HasQuery(q) == Truthy(q) /\ Truthy(Trim(q))

\* the text searched for (lines 176-186)
searchQueryFor(q, l) ==
    IF HasQuery(q) THEN Trim(q) \o InWord \o l
    ELSE BusinessesWord \o InWord \o l

\* a cap that is the same for every search
alwaysTwoPages(q) == 2

\* the maxPages handed to fetchAllPlaces (lines 179, 185)
maxPagesFor(q) == IF HasQuery(q) THEN 1 ELSE 2

\* What the directory answers to a page request: the fetch throws, or answers
\* with an HTTP status that is ok or not and a body with status, results and
\* next_page_token.
PageAnswer(fetch, ok, status, places, token) ==
    [fetch |-> fetch, ok |-> ok, status |-> status, results |-> places,
     next_page_token |-> token]
PageThrow == PageAnswer("throw", FALSE, "", << >>, NULL)
PageHttpError == PageAnswer("ok", FALSE, "", << >>, NULL)
PageDenied == PageAnswer("ok", TRUE, "REQUEST_DENIED", << >>, NULL)
PageInvalid == PageAnswer("ok", TRUE, "INVALID_REQUEST", << >>, NULL)
PageZero == PageAnswer("ok", TRUE, "ZERO_RESULTS", << >>, NULL)
PageFirst == PageAnswer("ok", TRUE, "OK", <<PlaceDeli, PlaceInn>>, <<"t", "1">>)
PageOnly == PageAnswer("ok", TRUE, "OK", <<PlaceDeli, PlaceInn>>, NULL)
PageSecond == PageAnswer("ok", TRUE, "OK", <<PlaceDeliAgain, PlaceAl>>, <<"t", "2">>)
PageAnswers == {PageThrow, PageHttpError, PageDenied, PageInvalid, PageZero,
                PageFirst, PageOnly, PageSecond}

DirectoryErrors == {"REQUEST_DENIED", "INVALID_REQUEST", "OVER_QUERY_LIMIT",
                    "UNKNOWN_ERROR", "NOT_FOUND"}

\* the message thrown for a non-OK status of the first page (lines 127-143);
\* the remediation hints of REQUEST_DENIED are left out
GoogleError(status) ==
    "Google Places API error: " \o status \o
    (CASE status = "INVALID_REQUEST" ->
              ". The request was invalid. Check your query parameters."
       [] status = "OVER_QUERY_LIMIT" ->
              ". You have exceeded your API quota. Check your billing."
       [] status = "UNKNOWN_ERROR" ->
              ". An unknown error occurred. Please try again."
       [] OTHER -> "")

MsgRequestFailed == "Google Places API request failed"
MsgFetchFailed == "fetch failed"

\* error.message.includes('Google Places API error') ? 400 : 500 (lines 71-81)
GoogleMarker == "Google Places API error"
Includes(text, part) ==
    \E i \in 1..(Len(text) - Len(part) + 1) : SubSeq(text, i, i + Len(part) - 1) = part
errorStatus(message) == IF Includes(message, GoogleMarker) THEN 400 ELSE 500

\* the handler after searchBusinesses returned: one slot per website check
StartChecks(req, businesses) ==
    /\ srvReq' = req
    /\ srvBusinesses' = businesses
    /\ srvChecked' = [i \in 1..Len(businesses) |-> Pending]
    /\ srvProbes' = [i \in 1..Len(businesses) |-> << >>]
    /\ srvCalls' = [i \in 1..Len(businesses) |-> 0]
    /\ srvPc' = "checking"
    /\ srvResponse' = NoResponse

Respond(req, response) ==
    /\ srvReq' = req
    /\ srvBusinesses' = << >>
    /\ srvChecked' = << >>
    /\ srvProbes' = << >>
    /\ srvCalls' = << >>
    /\ srvPc' = "done"
    /\ srvResponse' = response

\* POST with a body that is rejected (lines 6-13)
PostRejected(req) ==
    /\ srvPc \in {"idle", "done"}
    /\ requestRejected(req.query, req.location)
    /\ Respond(req, Failure(400, MsgRequired))
    /\ srvFetch' = NoFetch
    /\ UNCHANGED <<pageVars, scoreVars, viewVars>>

\* POST, searchBusinesses answering from the directory
PostGoogle(req, allPlaces, details) ==
    /\ srvPc \in {"idle", "done"}
    /\ ~requestRejected(req.query, req.location)
    /\ StartChecks(req, placesWithDetails(allPlaces, details))
    /\ srvFetch' = [NoFetch EXCEPT !.allResults = allPlaces, !.details = details]
    /\ UNCHANGED <<pageVars, scoreVars, viewVars>>

\* POST, searchBusinesses answering with the mock sample (no API key)
PostMock(req) ==
    /\ srvPc \in {"idle", "done"}
    /\ ~requestRejected(req.query, req.location)
    /\ StartChecks(req, mockBusinesses(req.query, req.location, MockPhones))
    /\ srvFetch' = NoFetch
    /\ UNCHANGED <<pageVars, scoreVars, viewVars>>

\* POST, searchBusinesses throwing (lines 64-82)
PostThrows(req, message) ==
    /\ srvPc \in {"idle", "done"}
    /\ ~requestRejected(req.query, req.location)
    /\ Respond(req, Failure(errorStatus(message), message))
    /\ srvFetch' = NoFetch
    /\ UNCHANGED <<pageVars, scoreVars, viewVars>>

\* POST with the API key set: the body is accepted and searchBusinesses calls
\* fetchAllPlaces (route.js 6-16, websiteChecker.js 172-186)
PostDirectory(req) ==
    /\ srvPc \in {"idle", "done"}
    /\ ~requestRejected(req.query, req.location)
    /\ srvReq' = req
    /\ srvFetch' = [NoFetch EXCEPT
                       !.searchQuery = searchQueryFor(req.query, req.location),
                       !.maxPages = maxPagesFor(req.query)]
    /\ srvPc' = "paging"
    /\ srvBusinesses' = << >>
    /\ srvChecked' = << >>
    /\ srvProbes' = << >>
    /\ srvCalls' = << >>
    /\ srvResponse' = NoResponse
    /\ UNCHANGED <<pageVars, scoreVars, viewVars>>

\* one turn of the do-while of fetchAllPlaces (lines 115-164): the page is
\* requested and the directory's answer is handled
FetchPage(answer) ==
    /\ srvPc = "paging"
    /\ LET request == [query |-> srvFetch.searchQuery,
                       pagetoken |-> srvFetch.nextPageToken]
           sentAt == srvFetch.clock + cooldownFor(srvFetch.nextPageToken)
           logged == [srvFetch EXCEPT !.requests = Append(@, request),
                                      !.answers = Append(@, answer),
                                      !.requestedAt = Append(@, sentAt),
                                      !.answeredAt = Append(@, sentAt + FetchMs),
                                      !.clock = sentAt + FetchMs]
           Throw(message) ==
               /\ srvFetch' = logged
               /\ Respond(srvReq, Failure(errorStatus(message), message))
           Return(fetched) ==
               /\ srvFetch' = fetched
               /\ srvPc' = "details"
               /\ UNCHANGED <<srvReq, srvBusinesses, srvChecked, srvProbes,
                              srvCalls, srvResponse>>
       IN IF answer.fetch = "throw" THEN Throw(MsgFetchFailed)
          ELSE IF ~answer.ok THEN Throw(MsgRequestFailed)
          ELSE IF answer.status # "OK" /\ answer.status # "ZERO_RESULTS"
          THEN IF srvFetch.pageCount = 0 THEN Throw(GoogleError(answer.status))
               ELSE Return(logged)
          ELSE LET token == OrElse(answer.next_page_token, NULL)
                   next == [logged EXCEPT
                               !.allResults = @ \o answer.results,
                               !.nextPageToken = token,
                               !.pageCount = @ + 1]
               IN IF Truthy(token) /\ next.pageCount < next.maxPages
                  THEN /\ srvFetch' = next
                       /\ UNCHANGED <<srvPc, srvReq, srvBusinesses, srvChecked,
                                      srvProbes, srvCalls, srvResponse>>
                  ELSE Return(next)
    /\ UNCHANGED <<pageVars, scoreVars, viewVars>>

\* searchBusinesses after fetchAllPlaces returned (lines 188-272): the places
\* are made unique and the details requests are answered
FetchDetails(details) ==
    /\ srvPc = "details"
    /\ details \in [1..Len(uniquePlaces(srvFetch.allResults)) -> DetailsAnswers]
    /\ StartChecks(srvReq, placesWithDetails(srvFetch.allResults, details))
    /\ srvFetch' = [srvFetch EXCEPT !.details = details]
    /\ UNCHANGED <<pageVars, scoreVars, viewVars>>

\* one callback of the Promise.all (lines 22-52) runs to its return
CheckBusiness(i, outcomes) ==
    /\ srvPc = "checking"
    /\ i \in 1..Len(srvBusinesses)
    /\ srvChecked[i] = Pending
    /\ LET check == businessWithWebsiteStatus(srvBusinesses[i], outcomes)
       IN /\ srvChecked' = [srvChecked EXCEPT ![i] = check.record]
          /\ srvProbes' = [srvProbes EXCEPT ![i] = check.probed]
          /\ srvCalls' = [srvCalls EXCEPT ![i] = IF check.called THEN @ + 1 ELSE @]
    /\ UNCHANGED <<srvPc, srvReq, srvBusinesses, srvFetch, srvResponse,
                   pageVars, scoreVars, viewVars>>

\* every check has returned: the response is built and sent (lines 57-63)
SendBusinesses ==
    /\ srvPc = "checking"
    /\ \A i \in 1..Len(srvChecked) : srvChecked[i] # Pending
    /\ srvResponse' = Success([i \in 1..Len(srvChecked) |->
                                  allBusinessesRecord(srvChecked[i])])
    /\ srvPc' = "done"
    /\ UNCHANGED <<srvReq, srvBusinesses, srvChecked, srvProbes, srvCalls, srvFetch,
                   pageVars, scoreVars, viewVars>>


\* ------------------------------------------------------- scoring harness
RatingInputs == {NoNum, 0, 10, 38, 45, 50}
ReviewInputs == {NoNum, 0, 7, 120, 125, 200, 250}
PhoneInputs == {NULL, << >>, <<"5", "5", "5", "-", "0", "1", "0", "1">>}
AddressInputs == {NULL, << >>, <<"1", " ", "E", "l", "m">>}

ScoreInputs ==
    { [rating |-> r, userRatingsTotal |-> n, hasWebsite |-> w, phone |-> p, address |-> a] :
        r \in RatingInputs, n \in ReviewInputs, w \in BOOLEAN,
        p \in PhoneInputs, a \in AddressInputs }

\* a caller holding a record calls calculateLeadScore on it
Score ==
    /\ scoreOut = NoNum
    /\ scoreOut' = calculateLeadScore(scoreLead)
    /\ UNCHANGED <<scoreLead, pageVars, srvVars, viewVars>>

\* ------------------------------------------------------- specifications
StatusInputs == {"new", "contacted", "lost"}
NameInputs == { << >>, <<" ">>, <<"a">>, <<" ", "a", " ">>, <<"b">> }
StoreResponses == { Success(GoogleBusinesses), Success(TypedMock) }

InitSrv ==
    /\ srvPc = "idle"
    /\ srvReq = [query |-> << >>, location |-> << >>]
    /\ srvBusinesses = << >>
    /\ srvChecked = << >>
    /\ srvProbes = << >>
    /\ srvCalls = << >>
    /\ srvFetch = NoFetch
    /\ srvResponse = NoResponse

InitScore ==
    /\ scoreLead = NoLead
    /\ scoreOut = NoNum

\* the leads view after mount, the notes store empty and no search sent
InitView ==
    /\ leadFilter = "all"
    /\ leadSearch = << >>
    /\ lsNotes = << >>
    /\ issued = NoRequest

\* the page after mount with empty stores
InitPage ==
    /\ now = 0
    /\ query = << >>
    /\ location = << >>
    /\ loading = FALSE
    /\ error = ""
    /\ inflight = << >>
    /\ results = << >>
    /\ selectedBusinesses = << >>
    /\ savedBusinesses = << >>
    /\ projects = << >>
    /\ selectedProject = NoProject
    /\ lsLeads = << >>
    /\ lsProjects = << >>
    /\ lastOp = [op |-> "init", n |-> 0]
    /\ InitView

\* the page with empty stores once the user has typed a query and a location
InitTyped ==
    /\ now = 0
    /\ query = TypedQuery
    /\ location = TypedLocation
    /\ loading = FALSE
    /\ error = ""
    /\ inflight = << >>
    /\ results = << >>
    /\ selectedBusinesses = << >>
    /\ savedBusinesses = << >>
    /\ projects = << >>
    /\ selectedProject = NoProject
    /\ lsLeads = << >>
    /\ lsProjects = << >>
    /\ lastOp = [op |-> "init", n |-> 0]
    /\ InitView

\* searching and selecting, the way leads reach the store
SearchAndSelect ==
    \/ handleSubmit
    \/ \E i \in 1..Len(inflight) : \E response \in StoreResponses :
          handleSubmitResponse(i, response)
    \/ \E index \in 0..(Len(results) - 1) : toggleBusinessSelection(index)

\* The lead store: leads are added from search results, change status, are
\* removed, and are tagged with a project that can be deleted.
Init == InitTyped /\ InitSrv /\ InitScore

Next ==
    \/ Tick
    \/ SearchAndSelect
    \/ addSelectedToSaved
    \/ \E i \in 1..Len(savedBusinesses) : \E s \in StatusInputs :
          handleStatusChange(savedBusinesses[i].id, s)
    \/ \E i \in 1..Len(savedBusinesses) : removeFromSaved(savedBusinesses[i].id)
    \/ (projects = << >> /\ createProject(<<"a">>))
    \/ \E i \in 1..Len(projects) : handleDeleteProject(projects[i].id)

Spec == Init /\ [][Next]_vars


\* The project tagger: projects are created and selected, leads are added
\* under the selected project, and projects are deleted.
NextProjects ==
    \/ Tick
    \/ SearchAndSelect
    \/ addSelectedToSaved
    \/ createProject(<<"a">>)
    \/ \E i \in 1..Len(projects) : chooseProject(projects[i].id)
    \/ chooseProject(<< >>)
    \/ \E i \in 1..Len(projects) : handleDeleteProject(projects[i].id)

SpecProjects == Init /\ [][NextProjects]_vars

\* The project forms: whatever is typed as a name is submitted.
InitNames == InitPage /\ InitSrv /\ InitScore

NextNames ==
    \/ Tick
    \/ \E name \in NameInputs : createProject(name)
    \/ \E i \in 1..Len(projects) : \E name \in NameInputs :
          handleRenameProject(projects[i].id, name)
    \/ \E i \in 1..Len(projects) : clickProject(i)
    \/ \E i \in 1..Len(projects) : handleDeleteProject(projects[i].id)

SpecNames == InitNames /\ [][NextNames]_vars

\* calculateLeadScore applied to each record of ScoreInputs
InitScoring ==
    /\ InitPage
    /\ InitSrv
    /\ scoreLead \in ScoreInputs
    /\ scoreOut = NoNum

NextScore == Score

SpecScore == InitScoring /\ [][NextScore]_vars

\* POST /api/search, one request at a time
NextSearch ==
    \/ \E req \in Requests : PostRejected(req)
    \/ \E req \in Requests : \E allPlaces \in PlaceLists :
          \E details \in [1..Len(uniquePlaces(allPlaces)) -> DetailsAnswers] :
             PostGoogle(req, allPlaces, details)
    \/ \E req \in Requests : PostMock(req)
    \/ \E req \in Requests : \E message \in {MsgGoogle, MsgFailed} :
          PostThrows(req, message)
    \/ \E i \in 1..Len(srvBusinesses) : \E outcomes \in OutcomeLists :
          CheckBusiness(i, outcomes)
    \/ SendBusinesses

SpecSearch == InitNames /\ [][NextSearch]_vars


\* ------------------------------------------------------------ lead store
\* the workflow metadata of a lead
WorkflowFields(lead) ==
    <<lead.status, lead.score, lead.addedDate, lead.lastUpdated,
      lead.lastContactDate, lead.projectId>>

\* C1: an add keeps every lead already stored: after the add the persisted
\* collection still holds a lead with its composite key, and that lead has the
\* status, score, addedDate, lastUpdated, lastContactDate and projectId it had
\* before, also when a lead with the same key is among the leads added.
C1_AddKeepsStoredLead ==
    [][addSelectedToSaved =>
         \A i \in 1..Len(lsLeads) : \E j \in 1..Len(lsLeads') :
            /\ LeadKey(lsLeads'[j]) = LeadKey(lsLeads[i])
            /\ WorkflowFields(lsLeads'[j]) = WorkflowFields(lsLeads[i])]_vars

\* a business whose key is already stored has been added again
C1_ReAdded == lastOp.op = "add" /\ lastOp.n >= 1


NoDuplicates(leads) ==
    \A i, j \in 1..Len(leads) :
        i # j => leads[i].id # leads[j].id /\ LeadKey(leads[i]) # LeadKey(leads[j])

\* C2: from the empty store on, whatever is added, removed, given a status or
\* detached from a deleted project, no two leads in memory or persisted have
\* the same id or the same composite key.
C2_NoDuplicateLeads == NoDuplicates(savedBusinesses) /\ NoDuplicates(lsLeads)

\* two leads are stored and a business already stored has been added again
C2_MergedIntoTwo == Len(lsLeads) = 2 /\ lastOp.op = "add" /\ lastOp.n >= 1


LeadWithId(leads, leadId) == leads[FindIndex(leads, LAMBDA l : l.id = leadId)]

\* C3: when the status of a stored lead has been changed to "contacted" or
\* "replied", the persisted lead carries a lastContactDate stamped at the
\* change, not earlier than its addedDate, and a lastUpdated of the change;
\* a change to another status leaves the persisted lastContactDate as it was.
C3_ContactDateStamped ==
    [][\A i \in 1..Len(savedBusinesses) : \A s \in Statuses :
          handleStatusChange(savedBusinesses[i].id, s) =>
             LET before == LeadWithId(lsLeads, savedBusinesses[i].id)
                 after == LeadWithId(lsLeads', savedBusinesses[i].id)
             IN IF s \in ContactStatuses
                THEN /\ after.lastContactDate = now
                     /\ after.lastContactDate >= after.addedDate
                     /\ after.lastUpdated = now
                ELSE after.lastContactDate = before.lastContactDate]_vars

\* the status of a stored lead has been changed to "contacted"
C3_Contacted ==
    /\ lastOp.op = "status"
    /\ \E i \in 1..Len(lsLeads) : lsLeads[i].status = "contacted"


\* C4: the id of a stored lead never changes: across every step, a lead
\* persisted before and after under the same composite key has the same id.
C4_IdImmutable ==
    [][\A i \in 1..Len(lsLeads) : \A j \in 1..Len(lsLeads') :
          LeadKey(lsLeads'[j]) = LeadKey(lsLeads[i]) =>
             lsLeads'[j].id = lsLeads[i].id]_vars

\* a business without placeId whose key is already stored has been added again
C4_ReAddedWithoutPlaceId ==
    /\ lastOp.op = "add"
    /\ lastOp.n >= 1
    /\ \E i \in 1..Len(lsLeads) : lsLeads[i].placeId = NULL


\* -------------------------------------------------------- project tagger
Detached(lead, projectId) ==
    IF lead.projectId = projectId THEN [lead EXCEPT !.projectId = NULL] ELSE lead

\* C5: deleting a project removes it from the projects in memory and persisted,
\* keeps the number of leads, sets projectId to null on every lead tagged with
\* it and leaves every other lead, projectId included, as it was.
C5_DeleteDetachesLeads ==
    [][\A p \in 1..Len(projects) :
          handleDeleteProject(projects[p].id) =>
             /\ \A k \in 1..Len(projects') : projects'[k].id # projects[p].id
             /\ \A k \in 1..Len(lsProjects') : lsProjects'[k].id # projects[p].id
             /\ Len(savedBusinesses') = Len(savedBusinesses)
             /\ Len(lsLeads') = Len(lsLeads)
             /\ \A k \in 1..Len(savedBusinesses) :
                   savedBusinesses'[k] = Detached(savedBusinesses[k], projects[p].id)
             /\ \A k \in 1..Len(lsLeads) :
                   lsLeads'[k] = Detached(lsLeads[k], projects[p].id)]_vars

\* a project with a tagged lead has been deleted while another lead stays
\* tagged with another project
C5_DetachedOneOfTwo ==
    /\ lastOp.op = "deleteProject"
    /\ lastOp.n >= 1
    /\ \E i \in 1..Len(lsLeads) : lsLeads[i].projectId # NULL


\* a name made of white space only, and the text between the first and the
\* last character of a name that are not white space
Blank(name) == \A i \in 1..Len(name) : IsSpace(name[i])
Core(name) ==
    IF Blank(name) THEN << >>
    ELSE LET inked == {i \in 1..Len(name) : ~IsSpace(name[i])}
             first == CHOOSE i \in inked : \A j \in inked : i <= j
             last == CHOOSE i \in inked : \A j \in inked : j <= i
         IN SubSeq(name, first, last)
NamesKept(ps) == \A k \in 1..Len(ps) : ~Blank(ps[k].name) /\ Core(ps[k].name) = ps[k].name

\* C6: a create whose name is blank once trimmed, and a rename whose name once
\* trimmed is blank or the name the project already has, change neither the
\* projects in memory nor the persisted ones; and after every step each
\* project's name is non-empty and has no white space around it.
C6_BlankNamesIgnored ==
    [][/\ \A name \in NameInputs :
             createProject(name) /\ Blank(name) => UNCHANGED <<projects, lsProjects>>
       /\ \A p \in 1..Len(projects) : \A name \in NameInputs :
             /\ handleRenameProject(projects[p].id, name)
             /\ Blank(name) \/ Core(name) = projects[FindProject(projects[p].id)].name
             => UNCHANGED <<projects, lsProjects>>
       /\ NamesKept(projects')
       /\ NamesKept(lsProjects')]_vars

\* a rename to a blank name or to the name the project has was submitted
C6_RenameIgnored == lastOp.op = "renameProject" /\ lastOp.n = 0

\* C7: no two projects, in memory or persisted, have the same id.
C7_ProjectIdsUnique ==
    /\ \A i, j \in 1..Len(projects) : i # j => projects[i].id # projects[j].id
    /\ \A i, j \in 1..Len(lsProjects) : i # j => lsProjects[i].id # lsProjects[j].id

\* two projects are stored
C7_TwoProjects == Len(lsProjects) = 2


\* ---------------------------------------------------------------- scoring
\* a text field is present when it is neither null nor the empty string (the
\* directory's records carry '' for a missing address)
PresentText(s) == s # NULL /\ s # << >>

\* the specified sum in tenths of a point: rating*10, min(reviews/10, 20),
\* 30 without website, 10 with a phone, 5 with an address
SpecifiedTenths(lead) ==
    (IF lead.rating # NoNum THEN lead.rating * 10 ELSE 0)
    + (IF lead.userRatingsTotal # NoNum
       THEN (IF lead.userRatingsTotal < 200 THEN lead.userRatingsTotal ELSE 200) ELSE 0)
    + (IF lead.hasWebsite = FALSE THEN 300 ELSE 0)
    + (IF PresentText(lead.phone) THEN 100 ELSE 0)
    + (IF PresentText(lead.address) THEN 50 ELSE 0)

\* C8: what calculateLeadScore returns is the specified sum rounded to the
\* nearest integer (halves up), an integer in 0..115; and it is 102 for rating
\* 4.5, 120 reviews, no website, a phone and an address.
C8_ScoreFormula ==
    scoreOut # NoNum =>
       /\ scoreOut \in 0..115
       /\ 10 * scoreOut - 5 <= SpecifiedTenths(scoreLead)
       /\ SpecifiedTenths(scoreLead) < 10 * scoreOut + 5
       /\ (/\ scoreLead.rating = 45
           /\ scoreLead.userRatingsTotal = 120
           /\ ~scoreLead.hasWebsite
           /\ PresentText(scoreLead.phone)
           /\ PresentText(scoreLead.address)) => scoreOut = 102

\* the record of the example has been scored
C8_ExampleScored ==
    /\ scoreOut # NoNum
    /\ scoreLead.rating = 45
    /\ scoreLead.userRatingsTotal = 120
    /\ ~scoreLead.hasWebsite
    /\ PresentText(scoreLead.phone)
    /\ PresentText(scoreLead.address)


\* ----------------------------------------------------------------- search
\* C9: in every record of a successful response, hasWebsite is true exactly
\* when the website field is non-empty, whether the website came from the
\* directory or from the domain probe.
C9_HasWebsiteIffWebsite ==
    srvResponse.status = 200 =>
       \A i \in 1..Len(srvResponse.businesses) :
          srvResponse.businesses[i].hasWebsite
             <=> PresentText(srvResponse.businesses[i].website)

\* a response carries a website found by the probe and one the directory gave
C9_ProbedAndSupplied ==
    /\ srvResponse.status = 200
    /\ \E i \in 1..Len(srvResponse.businesses) :
          srvResponse.businesses[i].hasWebsite /\ srvProbes[i] # << >>
    /\ \E i \in 1..Len(srvResponse.businesses) :
          srvResponse.businesses[i].hasWebsite /\ Truthy(srvBusinesses[i].website)

\* C10: a business whose website the directory supplied is checked without any
\* probe request, gets hasWebsite true and keeps that website, in its slot and
\* in the response.
C10_SuppliedWebsiteTrusted ==
    \A i \in 1..Len(srvBusinesses) :
       Truthy(srvBusinesses[i].website) /\ srvChecked[i] # Pending =>
          /\ srvProbes[i] = << >>
          /\ srvChecked[i].hasWebsite
          /\ srvChecked[i].website = srvBusinesses[i].website
          /\ srvResponse.status = 200 =>
                /\ srvResponse.businesses[i].hasWebsite
                /\ srvResponse.businesses[i].website = srvBusinesses[i].website

\* a business with a website from the directory has been checked and sent
C10_SuppliedChecked ==
    /\ srvResponse.status = 200
    /\ \E i \in 1..Len(srvBusinesses) :
          Truthy(srvBusinesses[i].website) /\ srvChecked[i] # Pending


\* ------------------------------------------------- directory specification
DirectoryRequests ==
    { [query |-> q, location |-> l] :
         q \in {<< >>, <<" ">>, TypedQuery}, l \in {<< >>, <<" ">>, TypedLocation} }
DirectoryDetails == {DetailsSite, DetailsPhone, DetailsDenied, DetailsThrow}

\* POST /api/search with the API key set: the pages of the directory are
\* fetched one by one, then the details, then the websites are checked with
\* every probe failing.
NextDirectory ==
    \/ \E req \in DirectoryRequests : PostRejected(req)
    \/ \E req \in DirectoryRequests : PostDirectory(req)
    \/ \E answer \in PageAnswers : FetchPage(answer)
    \/ \E details \in [1..Len(uniquePlaces(srvFetch.allResults)) -> DirectoryDetails] :
          FetchDetails(details)
    \/ \E i \in 1..Len(srvBusinesses) : CheckBusiness(i, AllFail)
    \/ SendBusinesses

SpecDirectory == InitNames /\ [][NextDirectory]_vars


\* -------------------------------------------------- batch specification
PlaceGym == [place_id |-> <<"p", "4">>, name |-> <<"G", "y", "m", " ", "2", "4">>, formatted_address |-> <<"4", " ", "A", "s", "h">>,
             rating |-> 41, user_ratings_total |-> 15,
             types |-> << <<"g", "y", "m">> >>]
PlaceSpa == [place_id |-> <<"p", "5">>, name |-> <<"A", " ", "S", "p", "a">>, formatted_address |-> <<"5", " ", "F", "i", "r">>,
             rating |-> 50, user_ratings_total |-> 2,
             types |-> << <<"s", "p", "a">>, <<"p", "o", "i", "n", "t", "_", "o", "f", "_", "i", "n", "t", "e", "r", "e", "s", "t">> >>]
FivePlaces == <<PlaceDeli, PlaceAl, PlaceInn, PlaceGym, PlaceSpa>>
TypedRequest == [query |-> TypedQuery, location |-> TypedLocation]

\* probe answers none of which is a 2xx or a 3xx
FailingOutcomes == { AllFail, <<500, ProbeThrow>>, <<404, 404>> }

\* POST /api/search for a directory page of five places, each with or without
\* a website in its details, every domain probe failing.
NextBatch ==
    \/ \E details \in [1..Len(FivePlaces) -> {DetailsSite, DetailsPhone}] :
          PostGoogle(TypedRequest, FivePlaces, details)
    \/ \E i \in 1..Len(srvBusinesses) : \E outcomes \in FailingOutcomes :
          CheckBusiness(i, outcomes)
    \/ SendBusinesses

SpecBatch == InitNames /\ [][NextBatch]_vars

RECURSIVE Sum(_)
Sum(s) == IF s = << >> THEN 0 ELSE Head(s) + Sum(Tail(s))

SuppliedWebsites == {i \in 1..Len(srvBusinesses) : Truthy(srvBusinesses[i].website)}

\* C11: when the directory returned five candidates, two of them with a
\* website, and every probe failed, the response has five records in the
\* order of the candidates, hasWebsite true exactly for the two with a
\* website, and the domain-probe fallback was run exactly three times: once
\* for each candidate without website, never for the two others.
C11_FiveCandidates ==
    /\ srvResponse.status = 200
    /\ Len(srvBusinesses) = 5
    /\ Cardinality(SuppliedWebsites) = 2
    => /\ Len(srvResponse.businesses) = 5
       /\ \A i \in 1..5 :
             /\ srvResponse.businesses[i].name = srvBusinesses[i].name
             /\ srvResponse.businesses[i].hasWebsite <=> i \in SuppliedWebsites
             /\ srvCalls[i] = (IF i \in SuppliedWebsites THEN 0 ELSE 1)
       /\ Cardinality({i \in 1..5 : srvResponse.businesses[i].hasWebsite}) = 2
       /\ Sum(srvCalls) = 3

\* five candidates, two with a website, have been answered after HEAD requests
\* for a candidate without website
C11_FiveAnswered ==
    /\ srvResponse.status = 200
    /\ Len(srvBusinesses) = 5
    /\ Cardinality(SuppliedWebsites) = 2
    /\ \E i \in 1..5 : Len(srvProbes[i]) = 2


\* ------------------------------------------- specification: the domain probe
\* One page of three places whose details carry no website, each probed with
\* every pair of answers of its two candidate domains.
ProbePlaces == <<PlaceDeli, PlaceAl, PlaceInn>>
ProbeDetails == {DetailsPhone, DetailsBare}
ProbeAnswers == [1..2 -> ProbeOutcomes]

NextProbe ==
    \/ \E details \in [1..Len(ProbePlaces) -> ProbeDetails] :
          PostGoogle(TypedRequest, ProbePlaces, details)
    \/ \E i \in 1..Len(srvBusinesses) : \E outcomes \in ProbeAnswers :
          CheckBusiness(i, outcomes)
    \/ SendBusinesses

SpecProbe == InitNames /\ [][NextProbe]_vars

FirstUrl(i) == Https \o cleanName(srvBusinesses[i].name) \o DotCom
SecondUrl(i) == Https \o Www \o cleanName(srvBusinesses[i].name) \o DotCom
Resolves(status) == status \in {200, 301}

\* C12: a record without website whose cleaned name is long enough is probed
\* at <cleanedname>.com first and at www.<cleanedname>.com second; a probe is
\* followed by another only if it threw or answered 4xx or 5xx; a 2xx or 3xx
\* answer ends the probing with the probed URL as website; when both
\* candidates were probed and neither resolved the record has hasWebsite false
\* and no website.
C12_ProbeOrder ==
    \A i \in 1..Len(srvBusinesses) :
       ( /\ srvPc \in {"checking", "done"}
         /\ srvChecked[i] # Pending
         /\ ~Truthy(srvBusinesses[i].website)
         /\ Len(cleanName(srvBusinesses[i].name)) >= MinCleanLen )
       => LET log == srvProbes[i]
              last == log[Len(log)]
          IN /\ Len(log) \in 1..2
             /\ log[1].url = FirstUrl(i)
             /\ Len(log) = 2 => log[2].url = SecondUrl(i) /\ ~Resolves(log[1].answer)
             /\ IF Resolves(last.answer)
                THEN /\ srvChecked[i].hasWebsite = TRUE
                     /\ srvChecked[i].website = last.url
                ELSE /\ Len(log) = 2
                     /\ srvChecked[i].hasWebsite = FALSE
                     /\ srvChecked[i].website = NULL

\* one record found at its second candidate after the first failed, another
\* found at its first candidate
C12_FirstAndSecond ==
    /\ srvPc = "checking"
    /\ \E i \in 1..Len(srvBusinesses) :
          /\ srvChecked[i] # Pending
          /\ Len(srvProbes[i]) = 2
          /\ srvProbes[i][1].answer \in {ProbeThrow, 404, 500}
          /\ srvChecked[i].website = SecondUrl(i)
    /\ \E i \in 1..Len(srvBusinesses) :
          /\ srvChecked[i] # Pending
          /\ Len(srvProbes[i]) = 1
          /\ srvChecked[i].website = FirstUrl(i)


\* the name cleaned with the leading article taken off while the whitespace
\* that follows it is still there
ArticleFree(name) ==
    SelectSeq(StripArticle(SelectSeq(ToLowerCase(name), CleanKeeps)), NotSpace)
StartsWithArticle(name) == StripArticle(ToLowerCase(name)) # ToLowerCase(name)

\* C13: a record without website is probed under its name lowercased, without
\* the characters outside [a-z0-9 and whitespace], without whitespace and
\* without a leading article ("The Deli" at deli.com); a cleaned name of fewer
\* than 3 characters is not probed and gives hasWebsite false.
C13_ArticleStripped ==
    \A i \in 1..Len(srvBusinesses) :
       ( /\ srvPc \in {"checking", "done"}
         /\ srvChecked[i] # Pending
         /\ ~Truthy(srvBusinesses[i].website) )
       => LET clean == ArticleFree(srvBusinesses[i].name)
          IN IF Len(clean) < MinCleanLen
             THEN srvProbes[i] = << >> /\ srvChecked[i].hasWebsite = FALSE
             ELSE /\ srvProbes[i] # << >>
                  /\ srvProbes[i][1].url = Https \o clean \o DotCom

\* a name that starts with an article has been probed
C13_ArticleNameProbed ==
    \E i \in 1..Len(srvBusinesses) :
       /\ srvPc = "checking"
       /\ srvChecked[i] # Pending
       /\ StartsWithArticle(srvBusinesses[i].name)
       /\ srvProbes[i] # << >>


\* C14: a search whose location is empty or only whitespace is answered with
\* status 400, with no page requested from the directory and no domain probed.
C14_BlankLocationRejected ==
    (srvPc # "idle" /\ Blank(srvReq.location))
    => /\ srvPc = "done"
       /\ srvResponse.status = 400
       /\ srvFetch.requests = << >>
       /\ \A i \in 1..Len(srvProbes) : srvProbes[i] = << >>

\* a search with a location of one space has been posted and answered
C14_BlankLocationAnswered ==
    /\ srvPc = "done"
    /\ srvReq.location = <<" ">>
    /\ Truthy(srvReq.query)


\* C15: a request with an empty query and a location that is not blank is not
\* rejected as a caller-input error: when it is answered, the directory has
\* been asked for "businesses in <location>", and the answer is not the 400 of
\* the input check.
C15_EmptyQueryAccepted ==
    (srvPc = "done" /\ srvReq.query = << >> /\ ~Blank(srvReq.location))
    => /\ ~(srvResponse.status = 400 /\ srvResponse.error = MsgRequired)
       /\ srvFetch.requests # << >>
       /\ \A k \in 1..Len(srvFetch.requests) :
             srvFetch.requests[k].query =
                BusinessesWord \o InWord \o srvReq.location

\* a request with an empty query and a location has been answered
C15_EmptyQueryAnswered ==
    /\ srvPc = "done"
    /\ srvReq.query = << >>
    /\ srvReq.location = TypedLocation


PageCap == IF Blank(srvReq.query) THEN 2 ELSE 1
PagingOver == srvPc \in {"details", "checking"} \/ (srvPc = "done" /\ srvResponse.status = 200)

\* C16: a search with a query that is not blank asks the directory for exactly
\* one page of "<trimmed query> in <location>"; a search with a blank query
\* asks for at most 2 pages of "businesses in <location>"; a page is requested
\* after another only with the token the other's answer carried and while the
\* cap is not reached, so that paging ends after at most cap requests.
C16_PageCap ==
    (srvPc # "idle" /\ ~requestRejected(srvReq.query, srvReq.location))
    => LET requests == srvFetch.requests
           answers == srvFetch.answers
       IN /\ Len(requests) <= PageCap
          /\ srvPc = "paging" => Len(requests) < PageCap
          /\ PagingOver => Len(requests) >= 1
          /\ \A k \in 1..Len(requests) :
                requests[k].query =
                   IF Blank(srvReq.query)
                   THEN BusinessesWord \o InWord \o srvReq.location
                   ELSE Trim(srvReq.query) \o InWord \o srvReq.location
          /\ Len(requests) >= 1 => requests[1].pagetoken = NULL
          /\ \A k \in 2..Len(requests) :
                /\ Truthy(answers[k - 1].next_page_token)
                /\ requests[k].pagetoken = answers[k - 1].next_page_token
          /\ (srvPc = "paging" /\ Len(requests) >= 1)
                => Truthy(answers[Len(answers)].next_page_token)

\* a search with a blank query stopped at the cap: two pages fetched, the
\* second answer carrying a token for a third
C16_StoppedAtCap ==
    /\ srvPc = "details"
    /\ Blank(srvReq.query)
    /\ Len(srvFetch.requests) = 2
    /\ Truthy(srvFetch.nextPageToken)


\* the places left when every later occurrence of a place_id is dropped
RECURSIVE FirstOccurrences(_, _)
FirstOccurrences(places, seen) ==
    IF places = << >> THEN << >>
    ELSE IF Head(places).place_id \in seen
         THEN FirstOccurrences(Tail(places), seen)
         ELSE <<Head(places)>>
                 \o FirstOccurrences(Tail(places), seen \cup {Head(places).place_id})

\* C17: the candidates processed are the first occurrences of the place ids of
\* the fetched pages, in the order of those first occurrences, each with the
\* name, address, rating and types of its first occurrence.
C17_FirstOccurrenceWins ==
    (srvPc = "checking" /\ srvFetch.requests # << >>)
    => LET firsts == FirstOccurrences(srvFetch.allResults, {})
       IN /\ Len(srvBusinesses) = Len(firsts)
          /\ \A i \in 1..Len(srvBusinesses) :
                LET first == placeRecord(firsts[i], srvFetch.details[i])
                IN /\ srvBusinesses[i].placeId = first.placeId
                   /\ srvBusinesses[i].name = first.name
                   /\ srvBusinesses[i].address = first.address
                   /\ srvBusinesses[i].rating = first.rating
                   /\ srvBusinesses[i].types = first.types

\* two pages that list one place twice have been made into candidates
C17_DuplicateFetched ==
    /\ srvPc = "checking"
    /\ Len(srvFetch.requests) = 2
    /\ Len(srvBusinesses) < Len(srvFetch.allResults)


DetailsFailed(details) == details.fetch = "throw" \/ details.status # "OK"
Candidates == uniquePlaces(srvFetch.allResults)
DirectorySearched == srvPc \in {"checking", "done"} /\ Len(srvFetch.details) = Len(srvBusinesses)
                        /\ srvFetch.requests # << >> /\ srvBusinesses # << >>

\* C18: whichever details requests throw or answer with a status that is not
\* OK, the search returns one record per unique candidate and the handler
\* answers 200 with as many records; the record of a candidate whose details
\* request failed has the name, address, rating, review count and types of the
\* search page and no phone, website, opening hours or maps URL; the record of
\* a candidate whose details request answered is the one it has when no
\* request fails.
C18_DetailFailureIsolated ==
    DirectorySearched
    => /\ Len(srvBusinesses) = Len(Candidates)
       /\ srvPc = "done" =>
             srvResponse.status = 200 /\ Len(srvResponse.businesses) = Len(Candidates)
       /\ \A i \in 1..Len(srvBusinesses) :
             LET place == Candidates[i]
                 record == srvBusinesses[i]
             IN /\ record.name = place.name
                /\ record.address = OrElse(place.formatted_address, << >>)
                /\ record.rating = NumOrNull(place.rating)
                /\ record.userRatingsTotal = NumOrNull(place.user_ratings_total)
                /\ record.types = businessTypes(place.types)
                /\ IF DetailsFailed(srvFetch.details[i])
                   THEN /\ record.phone = NULL
                        /\ record.website = NULL
                        /\ record.openingHoursStatus = NULL
                        /\ record.googleMapsUrl = NULL
                   ELSE /\ record.phone = OrElse(srvFetch.details[i].formatted_phone_number, NULL)
                        /\ record.website = OrElse(srvFetch.details[i].website, NULL)
                        /\ record.googleMapsUrl = OrElse(srvFetch.details[i].url, NULL)

\* a search answered 200 where one details request threw, one was denied and
\* one answered
C18_SomeDetailsFailed ==
    /\ DirectorySearched
    /\ srvPc = "done"
    /\ srvResponse.status = 200
    /\ \E i \in 1..Len(srvBusinesses) : srvFetch.details[i].fetch = "throw"
    /\ \E i \in 1..Len(srvBusinesses) :
          srvFetch.details[i].fetch = "ok" /\ srvFetch.details[i].status # "OK"
    /\ \E i \in 1..Len(srvBusinesses) : ~DetailsFailed(srvFetch.details[i])

PageNotOk(answer) ==
    \/ answer.fetch = "throw"
    \/ ~answer.ok
    \/ ~(answer.status \in {"OK", "ZERO_RESULTS"})
StatusRejected(answer) ==
    answer.fetch = "ok" /\ answer.ok /\ ~(answer.status \in {"OK", "ZERO_RESULTS"})

\* C19: when the first page is answered with a status that is not OK the
\* search fails with an error that carries that status, and when a later page
\* is answered with any outcome that is not OK the search does not fail: the
\* places of the earlier pages become the candidates and the answer is 200.
C19_LaterPageNeverFails ==
    (srvPc \in {"details", "checking", "done"} /\ srvFetch.answers # << >>)
    => LET answers == srvFetch.answers
       IN /\ StatusRejected(answers[1])
             => /\ srvPc = "done"
                /\ srvResponse.status # 200
                /\ Includes(srvResponse.error, answers[1].status)
          /\ (Len(answers) >= 2 /\ PageNotOk(answers[Len(answers)]))
             => /\ srvPc = "done" => srvResponse.status = 200
                /\ srvFetch.allResults = answers[1].results

\* the second page was denied and the search answered 200 with the places of
\* the first page
C19_LaterPageDenied ==
    /\ srvPc = "done"
    /\ Len(srvFetch.answers) = 2
    /\ StatusRejected(srvFetch.answers[2])
    /\ srvResponse.status = 200
    /\ Len(srvResponse.businesses) = 2

\* the directory answered the first page, and not with OK
FirstPageRejected ==
    /\ Len(srvFetch.answers) = 1
    /\ srvFetch.answers[1].fetch = "ok"
    /\ PageNotOk(srvFetch.answers[1])

\* C20: a failure is answered with an error message and no businesses, with
\* status 400 when the request was rejected by the input check or the
\* directory answered the first page with an outcome that is not OK, and with
\* status 500 otherwise; a success is answered with the businesses, those with
\* a website and those without.
C20_FailureStatus ==
    srvPc = "done"
    => IF srvResponse.status = 200
       THEN /\ srvResponse.error = ""
            /\ Len(srvResponse.businesses) = Len(srvChecked)
            /\ \A i \in 1..Len(srvChecked) :
                  srvResponse.businesses[i].hasWebsite = srvChecked[i].hasWebsite
       ELSE /\ srvResponse.error # ""
            /\ srvResponse.businesses = << >>
            /\ srvResponse.status =
                  IF requestRejected(srvReq.query, srvReq.location) \/ FirstPageRejected
                  THEN 400 ELSE 500

\* a success that carries a business with website and one without
C20_BothKindsSent ==
    /\ srvPc = "done"
    /\ srvResponse.status = 200
    /\ \E i \in 1..Len(srvResponse.businesses) : srvResponse.businesses[i].hasWebsite
    /\ \E i \in 1..Len(srvResponse.businesses) : ~srvResponse.businesses[i].hasWebsite

\* ------------------------------------------------- page.js (the leads view)
\* lead.status || 'new'
StatusOf(lead) == IF lead.status = "" THEN "new" ELSE lead.status

\* text?.toLowerCase().includes(searchLower)
TextIncludes(text, searchLower) ==
    text # NULL /\ Includes(ToLowerCase(text), searchLower)

\* the callback of savedBusinesses.filter (lines 770-794)
LeadShown(lead) ==
    /\ ~(selectedProject # NoProject /\ lead.projectId # selectedProject.id)
    /\ ~(leadFilter # "all" /\ StatusOf(lead) # leadFilter)
    /\ Truthy(Trim(leadSearch))
          => LET searchLower == ToLowerCase(leadSearch)
             IN \/ TextIncludes(lead.name, searchLower)
                \/ TextIncludes(lead.address, searchLower)
                \/ TextIncludes(lead.phone, searchLower)
                \/ \E k \in 1..Len(lead.types) :
                      TextIncludes(lead.types[k], searchLower)

\* every lead, whatever is selected, chosen or typed
wholeStore == savedBusinesses

filteredLeads == SelectSeq(savedBusinesses, LeadShown)

\* b.score || 0
ScoreOrZero(lead) == IF TruthyNum(lead.score) THEN lead.score ELSE 0

\* Array.prototype.sort with (a, b) => (b.score || 0) - (a.score || 0): stable,
\* higher scores first
RECURSIVE InsertByScore(_, _)
InsertByScore(sorted, lead) ==
    IF sorted = << >> THEN <<lead>>
    ELSE IF ScoreOrZero(Head(sorted)) >= ScoreOrZero(lead)
         THEN <<Head(sorted)>> \o InsertByScore(Tail(sorted), lead)
         ELSE <<lead>> \o sorted
RECURSIVE SortByScore(_)
SortByScore(leads) ==
    IF leads = << >> THEN << >>
    ELSE InsertByScore(SortByScore(SubSeq(leads, 1, Len(leads) - 1)),
                       leads[Len(leads)])

\* the cards of the leads tab (lines 1086-1088)
displayedLeads == SortByScore(filteredLeads)

\* the status <select> of the leads tab (lines 1062-1065)
setLeadFilter(value) ==
    /\ leadFilter # value
    /\ leadFilter' = value
    /\ UNCHANGED <<leadSearch, lsNotes, issued, pageVars, srvVars, scoreVars>>

\* the search box of the leads tab
setLeadSearch(text) ==
    /\ leadSearch # text
    /\ leadSearch' = text
    /\ UNCHANGED <<leadFilter, lsNotes, issued, pageVars, srvVars, scoreVars>>

\* const leadsToExport = leadFilter === 'all' ? savedBusinesses : filteredLeads
leadsToExport == IF leadFilter = "all" THEN savedBusinesses ELSE filteredLeads

\* exportToCSV (lines 802-823) writes one row per lead of leadsToExport, in
\* that order, and exportToEmail (lines 842-856) one numbered paragraph; both
\* return without writing when there is none. These are the leads written.
exportToCSV == leadsToExport
exportToEmail == leadsToExport

\* --------------------------------------------- specification: the leads view
\* A search answers with three businesses, two of them without website and
\* the one with the lower score first; they are stored, with or without a
\* project, one is contacted, and the view is filtered.
ViewBusinesses ==
    << Checked(placeRecord(PlaceInn, DetailsPhone), AllFail),
       Checked(placeRecord(PlaceDeli, DetailsBare), AllFail),
       Checked(placeRecord(PlaceAl, DetailsSite), AllFail) >>
FilterInputs == {"all", "new", "contacted"}
LeadSearchInputs == { << >>, <<" ">>, <<"D", "E", "L", "I">>, <<"o", "a", "k">>, <<"z", "z">> }

NextView ==
    \/ (results = << >> /\ handleSubmit)
    \/ \E i \in 1..Len(inflight) : handleSubmitResponse(i, Success(ViewBusinesses))
    \/ \E index \in 0..(Len(results) - 1) : toggleBusinessSelection(index)
    \/ addSelectedToSaved
    \/ (projects = << >> /\ createProject(<<"a">>))
    \/ chooseProject(<< >>)
    \/ \E i \in 1..Len(savedBusinesses) :
          handleStatusChange(savedBusinesses[i].id, "contacted")
    \/ \E value \in FilterInputs : setLeadFilter(value)
    \/ \E text \in LeadSearchInputs : setLeadSearch(text)

SpecView == Init /\ [][NextView]_vars

\* the text is found in the field whatever the case of either
FoundIn(text, field) ==
    field # NULL /\
    \E i \in 1..(Len(field) - Len(text) + 1) :
       ToLowerCase(SubSeq(field, i, i + Len(text) - 1)) = ToLowerCase(text)
Matches(lead) ==
    /\ selectedProject = NoProject \/ lead.projectId = selectedProject.id
    /\ leadFilter = "all" \/ (IF lead.status = "" THEN "new" ELSE lead.status) = leadFilter
    /\ \/ Blank(leadSearch)
       \/ FoundIn(leadSearch, lead.name)
       \/ FoundIn(leadSearch, lead.address)
       \/ FoundIn(leadSearch, lead.phone)
       \/ \E k \in 1..Len(lead.types) : FoundIn(leadSearch, lead.types[k])

\* C21: the leads view shows a stored lead exactly when it belongs to the
\* selected project (or none is selected), has the status of the filter (or
\* the filter is 'all') and contains the text of the search box in its name,
\* address, phone or a type, whatever the case (or the text is blank); the
\* leads shown are in descending order of score.
C21_LeadsView ==
    /\ \A i \in 1..Len(savedBusinesses) :
          (savedBusinesses[i] \in SeqToSet(displayedLeads)) <=> Matches(savedBusinesses[i])
    /\ SeqToSet(displayedLeads) \subseteq SeqToSet(savedBusinesses)
    /\ Len(displayedLeads) =
          Cardinality({i \in 1..Len(savedBusinesses) : Matches(savedBusinesses[i])})
    /\ \A k \in 1..(Len(displayedLeads) - 1) :
          ScoreOrZero(displayedLeads[k]) >= ScoreOrZero(displayedLeads[k + 1])

\* two leads stored, one of them shown under a status filter and a text
C21_OneOfTwoShown ==
    /\ Len(savedBusinesses) = 2
    /\ leadFilter = "contacted"
    /\ Truthy(Trim(leadSearch))
    /\ selectedProject # NoProject
    /\ Len(displayedLeads) = 1

\* C22: under every selected project, status filter and search text, the leads
\* written by the CSV export and by the email digest are the leads the view
\* shows.
C22_ExportIsView ==
    /\ SeqToSet(exportToCSV) = SeqToSet(displayedLeads)
    /\ SeqToSet(exportToEmail) = SeqToSet(displayedLeads)

\* two leads are stored and the view shows one of them under a status filter
C22_FilteredView ==
    /\ Len(savedBusinesses) = 2
    /\ leadFilter = "new"
    /\ Len(displayedLeads) = 1
    /\ exportToCSV # << >>

\* ------------------------------------------------------- storage.js (notes)
MaxNotes == 2

\* notes[leadId] || []
getNotesForLead(notes, leadId) ==
    IF leadId \in DOMAIN notes THEN notes[leadId] ELSE << >>

\* the note put in front of the lead's notes
prependNote(notes, leadId, note, t) ==
    [k \in DOMAIN notes \cup {leadId} |->
        IF k = leadId
        THEN <<[text |-> note, date |-> t]>> \o getNotesForLead(notes, leadId)
        ELSE notes[k]]

\* storage.js addNote: the stored mapping after notes[leadId].push(...)
addNote(notes, leadId, note, t) ==
    [k \in DOMAIN notes \cup {leadId} |->
        IF k = leadId
        THEN Append(getNotesForLead(notes, leadId), [text |-> note, date |-> t])
        ELSE notes[k]]

\* page.js handleAddNote (lines 634-645); text is the text of the note form
handleAddNote(leadId, text) ==
    /\ Len(getNotesForLead(lsNotes, leadId)) < MaxNotes
    /\ Truthy(Trim(text))
    /\ lsNotes' = addNote(lsNotes, leadId, text, now)
    /\ UNCHANGED <<leadFilter, leadSearch, issued, pageVars, srvVars, scoreVars>>

\* ------------------------------------------------- specification: the notes
\* Leads are stored, annotated and removed, and stored again.
NoteInputs == { <<"x">>, <<"y">> }

NextNotes ==
    \/ (results = << >> /\ handleSubmit)
    \/ \E i \in 1..Len(inflight) : handleSubmitResponse(i, Success(ViewBusinesses))
    \/ \E index \in 0..(Len(results) - 1) : toggleBusinessSelection(index)
    \/ addSelectedToSaved
    \/ (projects = << >> /\ createProject(<<"a">>))
    \/ \E i \in 1..Len(savedBusinesses) : \E text \in NoteInputs :
          handleAddNote(savedBusinesses[i].id, text)
    \/ \E i \in 1..Len(savedBusinesses) : removeFromSaved(savedBusinesses[i].id)

SpecNotes == Init /\ [][NextNotes]_vars

\* C23: removing a lead takes the leads with its id, and only those, out of
\* the leads in memory and persisted, and leaves the projects and the notes,
\* those of the removed lead included, as they were; whenever the notes
\* change, one lead's notes got one more entry at the end and every other
\* entry of the mapping is as it was.
C23_RemoveKeepsNotes ==
    [][/\ \A i \in 1..Len(savedBusinesses) :
             removeFromSaved(savedBusinesses[i].id) =>
                /\ savedBusinesses' =
                      SelectSeq(savedBusinesses,
                                LAMBDA lead : lead.id # savedBusinesses[i].id)
                /\ lsLeads' =
                      SelectSeq(lsLeads, LAMBDA lead : lead.id # savedBusinesses[i].id)
                /\ projects' = projects
                /\ lsProjects' = lsProjects
                /\ lsNotes' = lsNotes
       /\ lsNotes' # lsNotes =>
             \E id \in DOMAIN lsNotes' :
                /\ \A k \in DOMAIN lsNotes : k \in DOMAIN lsNotes'
                /\ \A k \in DOMAIN lsNotes' \ {id} :
                      k \in DOMAIN lsNotes /\ lsNotes'[k] = lsNotes[k]
                /\ Len(lsNotes'[id]) = Len(getNotesForLead(lsNotes, id)) + 1
                /\ SubSeq(lsNotes'[id], 1, Len(lsNotes'[id]) - 1) =
                      getNotesForLead(lsNotes, id)
      ]_vars

\* a lead with two notes has been removed: its notes are still stored
C23_OrphanedNotes ==
    \E id \in DOMAIN lsNotes :
       /\ Len(lsNotes[id]) = 2
       /\ lsNotes[id][1].text # lsNotes[id][2].text
       /\ \A i \in 1..Len(savedBusinesses) : savedBusinesses[i].id # id
       /\ lastOp.op = "remove"

\* ------------------------------------------- specification: searching again
\* A project keeps the search it was created with; the form is changed and
\* submitted, and Search Again is pressed on the project's card. Every search
\* is answered with the mock sample for its query.
OtherQuery == <<"r">>
OtherMock == MockBusinesses(OtherQuery, TypedLocation)
AnswerTo(request) ==
    IF request.query = TypedQuery THEN Success(TypedMock) ELSE Success(OtherMock)

NextAgain ==
    \/ (projects = << >> /\ createProject(<<"a">>))
    \/ \E text \in {TypedQuery, OtherQuery} : setQuery(text)
    \/ handleSubmit
    \/ \E i \in 1..Len(projects) : handleSearchAgain(i)
    \/ \E i \in 1..Len(inflight) : handleSubmitResponse(i, AnswerTo(inflight[i]))
    \/ \E i \in 1..Len(inflight) : handleSearchAgainResponse(i, AnswerTo(inflight[i]))
    \/ \E index \in 0..(Len(results) - 1) : toggleBusinessSelection(index)

SpecAgain == Init /\ [][NextAgain]_vars

\* C24: at most one search request is outstanding at any time, and loading is
\* true exactly while one is.
C24_OneSearchInFlight ==
    /\ Len(inflight) <= 1
    /\ loading <=> inflight # << >>

\* a search is active
C24_Searching == loading /\ Len(inflight) = 1 /\ projects # << >>

\* C25: when no search is outstanding any more, the results shown are those
\* of the search that was sent last, and the selection holds indices into
\* them.
C25_LastSearchWins ==
    (inflight = << >> /\ issued # NoRequest)
    => /\ results = AnswerTo(issued).businesses
       /\ \A k \in 1..Len(selectedBusinesses) : selectedBusinesses[k] < Len(results)

\* two searches were outstanding at once and both have been answered
C25_BothAnswered ==
    /\ inflight = << >>
    /\ issued.by = "again"
    /\ results # << >>
    /\ query = TypedQuery
    /\ error = ""

\* C26: the first page is requested without delay and without token; every
\* later page is requested with the token the previous answer carried, and no
\* earlier than 2000 ms after that answer arrived.
C26_PageCooldown ==
    LET requests == srvFetch.requests
        answers == srvFetch.answers
    IN /\ Len(requests) >= 1
          => requests[1].pagetoken = NULL /\ srvFetch.requestedAt[1] = 0
       /\ \A k \in 2..Len(requests) :
             /\ Truthy(answers[k - 1].next_page_token)
             /\ requests[k].pagetoken = answers[k - 1].next_page_token
             /\ srvFetch.requestedAt[k] >= srvFetch.answeredAt[k - 1] + 2000

\* a second page has been requested
C26_SecondPageRequested ==
    /\ Len(srvFetch.requests) = 2
    /\ srvFetch.requests[2].pagetoken = <<"t", "1">>

\* ------------------------------------------------------------- the two stores
\* every operation of the page that writes the lead store or the project
\* store, over one search whose answer has two shops without a website
RenameInputs == { <<"b">>, <<" ", "a", " ">> }

NextStore ==
    \/ Tick
    \/ (results = << >> /\ handleSubmit)
    \/ \E i \in 1..Len(inflight) : handleSubmitResponse(i, Success(ViewBusinesses))
    \/ \E index \in 0..(Len(results) - 1) : toggleBusinessSelection(index)
    \/ addSelectedToSaved
    \/ (projects = << >> /\ createProject(<<"a">>))
    \/ \E i \in 1..Len(projects) : \E name \in RenameInputs :
          handleRenameProject(projects[i].id, name)
    \/ \E i \in 1..Len(projects) : handleDeleteProject(projects[i].id)
    \/ \E i \in 1..Len(projects) : chooseProject(projects[i].id)
    \/ chooseProject(<< >>)
    \/ \E i \in 1..Len(savedBusinesses) : removeFromSaved(savedBusinesses[i].id)
    \/ \E i \in 1..Len(savedBusinesses) :
          handleStatusChange(savedBusinesses[i].id, "contacted")

SpecStore == Init /\ [][NextStore]_vars

\* C27: after every operation that changes the leads or the projects, what
\* the lead store holds is the list of leads of the page, and what the project
\* store holds is the list of projects of the page.
C27_StoresFollowPage ==
    /\ lsLeads = savedBusinesses
    /\ lsProjects = projects

\* a status change has been written while a renamed project is kept
C27_StatusWritten ==
    /\ lastOp.op = "status"
    /\ \E i \in 1..Len(lsLeads) : lsLeads[i].status = "contacted"
    /\ \E i \in 1..Len(lsProjects) : lsProjects[i].name = <<"b">>

\* ------------------------------------------------ requests made side by side
\* values gathered in the order in which their requests were answered
inSettlingOrder(values, settled) == [i \in 1..Len(settled) |-> values[settled[i]]]

\* await Promise.all(promises): the values in the order of the promises,
\* whatever the order in which they settled
promiseAll(values, settled) == values

\* the details request of candidate k is answered (or throws) while others
\* are still outstanding (websiteChecker.js lines 201-269)
FetchDetail(k, answer) ==
    /\ srvPc = "details"
    /\ k \in 1..Len(Candidates)
    /\ k \notin SeqToSet(srvFetch.settled)
    /\ srvFetch' = [srvFetch EXCEPT
                       !.details = [i \in 1..Len(Candidates) |->
                                       IF i = k THEN answer
                                       ELSE IF i \in SeqToSet(srvFetch.settled) THEN @[i]
                                       ELSE Pending],
                       !.settled = Append(@, k)]
    /\ UNCHANGED <<srvPc, srvReq, srvBusinesses, srvChecked, srvProbes, srvCalls,
                   srvResponse, pageVars, scoreVars, viewVars>>

\* every details request has settled: searchBusinesses returns its records and
\* the route starts the website checks (route.js lines 16-21)
GatherDetails ==
    /\ srvPc = "details"
    /\ Len(srvFetch.settled) = Len(Candidates)
    /\ StartChecks(srvReq,
                   placesWithDetails(srvFetch.allResults,
                                     promiseAll(srvFetch.details, srvFetch.settled)))
    /\ UNCHANGED <<srvFetch, pageVars, scoreVars, viewVars>>

BlankRequest == [query |-> <<" ">>, location |-> TypedLocation]
FanoutDetails == {DetailsSite, DetailsPhone, DetailsThrow}

\* POST /api/search with the API key set, the details requests and the
\* website checks each finishing in any order
NextFanout ==
    \/ \E req \in {TypedRequest, BlankRequest} : PostDirectory(req)
    \/ \E answer \in {PageFirst, PageOnly, PageSecond, PageZero} : FetchPage(answer)
    \/ \E k \in 1..Len(Candidates) : \E answer \in FanoutDetails : FetchDetail(k, answer)
    \/ GatherDetails
    \/ \E i \in 1..Len(srvBusinesses) : \E outcomes \in {AllFail, FirstAnswers} :
          CheckBusiness(i, outcomes)
    \/ SendBusinesses

SpecFanout == InitNames /\ [][NextFanout]_vars

\* C28: in whatever order the details requests and the website checks finish,
\* the search returns one record per candidate in the order of the candidates,
\* each built from its own details answer, and the response holds one record
\* per returned record, in the same order.
C28_OrderKept ==
    /\ srvPc = "checking" \/ (srvPc = "done" /\ srvResponse.status = 200)
       => /\ Len(srvBusinesses) = Len(Candidates)
          /\ \A i \in 1..Len(Candidates) :
                srvBusinesses[i] = placeRecord(Candidates[i], srvFetch.details[i])
    /\ srvPc = "done" /\ srvResponse.status = 200
       => /\ Len(srvResponse.businesses) = Len(srvBusinesses)
          /\ \A i \in 1..Len(srvBusinesses) :
                /\ srvResponse.businesses[i].placeId = srvBusinesses[i].placeId
                /\ srvResponse.businesses[i].name = srvBusinesses[i].name
                /\ srvResponse.businesses[i] = allBusinessesRecord(srvChecked[i])

\* three candidates were answered out of their order and the response was sent
C28_SettledBackwards ==
    /\ srvPc = "done"
    /\ srvResponse.status = 200
    /\ srvFetch.settled = <<3, 1, 2>>
    /\ Len(srvResponse.businesses) = 3
    /\ srvFetch.details[1] # srvFetch.details[3]

\* ------------------------------------------------------- selecting and adding
AddResponses == { Success(ViewBusinesses), Success(GoogleBusinesses),
                  Failure(500, MsgFailed) }

\* searches from the form and from a project, selections and adds, starting
\* with nothing stored
NextAdd ==
    \/ (projects = << >> /\ createProject(<<"a">>))
    \/ handleSubmit
    \/ \E i \in 1..Len(projects) : handleSearchAgain(i)
    \/ \E i \in 1..Len(inflight) : \E response \in AddResponses :
          handleSubmitResponse(i, response)
    \/ \E i \in 1..Len(inflight) : \E response \in AddResponses :
          handleSearchAgainResponse(i, response)
    \/ \E index \in 0..(Len(results) - 1) : toggleBusinessSelection(index)
    \/ selectAllBusinesses
    \/ addSelectedToSaved

SpecAdd == Init /\ [][NextAdd]_vars

\* C29: no lead kept by the page or in the lead store has a website.
C29_StoredWithoutWebsite ==
    /\ \A i \in 1..Len(savedBusinesses) : ~savedBusinesses[i].hasWebsite
    /\ \A i \in 1..Len(lsLeads) : ~lsLeads[i].hasWebsite

\* leads were added from the results of a repeated search that also holds a
\* business with a website
C29_AddedBesideWebsite ==
    /\ lastOp.op = "add"
    /\ lsLeads # << >>
    /\ issued.by = "again"
    /\ \E i \in 1..Len(results) : results[i].hasWebsite

\* the selection names a result that is no longer there
C29_StaleSelection ==
    \E k \in 1..Len(selectedBusinesses) : selectedBusinesses[k] >= Len(results)

\* ------------------------------------------------------ leads and their projects
\* every operation on projects and on stored leads, over one search whose
\* answer has one shop without a website
NextRefs ==
    \/ Tick
    \/ (results = << >> /\ handleSubmit)
    \/ \E i \in 1..Len(inflight) : handleSubmitResponse(i, Success(GoogleBusinesses))
    \/ \E index \in 0..(Len(results) - 1) : toggleBusinessSelection(index)
    \/ addSelectedToSaved
    \/ createProject(<<"a">>)
    \/ \E i \in 1..Len(projects) : handleRenameProject(projects[i].id, <<"b">>)
    \/ \E i \in 1..Len(projects) : handleDeleteProject(projects[i].id)
    \/ \E i \in 1..Len(projects) : chooseProject(projects[i].id)
    \/ chooseProject(<< >>)
    \/ \E i \in 1..Len(projects) : clickProject(i)
    \/ \E i \in 1..Len(savedBusinesses) : removeFromSaved(savedBusinesses[i].id)
    \/ \E i \in 1..Len(savedBusinesses) :
          handleStatusChange(savedBusinesses[i].id, "contacted")

SpecRefs == Init /\ [][NextRefs]_vars

\* C30: the project id of every lead, on the page and in the store, is null or
\* the id of a project of the collection, and the selected project, when there
\* is one, is a project of the collection.
C30_ReferencesResolve ==
    /\ \A i \in 1..Len(savedBusinesses) :
          savedBusinesses[i].projectId = NULL
             \/ FindProject(savedBusinesses[i].projectId) # 0
    /\ \A i \in 1..Len(lsLeads) :
          lsLeads[i].projectId = NULL \/ FindProject(lsLeads[i].projectId) # 0
    /\ selectedProject = NoProject
          \/ \E i \in 1..Len(projects) : projects[i] = selectedProject

\* one of two projects was deleted and the lead of the other kept its project
C30_LeadKeptProject ==
    /\ lastOp.op = "deleteProject"
    /\ Len(projects) = 1
    /\ \E i \in 1..Len(lsLeads) : lsLeads[i].projectId = projects[1].id
    /\ selectedProject = NoProject

====
